---- MODULE Spec2Model ----
(***************************************************************************)
(* License management backend (FastAPI + SQLAlchemy): the subscription     *)
(* lifecycle handlers of routers/customer.py, routers/subscription.py and  *)
(* routers/admin.py, behind the gates of dependencies.py.                  *)
(*                                                                         *)
(* Tables are sequences; a row's id is its index (autoincrement primary    *)
(* key).  Time is counted in days; a nullable DateTime column holds NULL   *)
(* or a day number.  A handler is one atomic action under Spec; SpecConc   *)
(* splits the check and the write of the lifecycle handlers into two       *)
(* steps.  What a handler does in a state is the value of its *_outcomes   *)
(* operator there: the table it leaves and the response it returns.  A     *)
(* handler that raises, or only reads, changes no variable.  SpecAdmin     *)
(* adds signup and the admin's management of customers and packs.          *)
(***************************************************************************)
EXTENDS Integers, Sequences, FiniteSets, TLC

\* ---------------------------------------------------------------- bounds
MaxSubs == 2
MaxNow == 31
MaxSkew == 1
MaxUsers == 4
MaxPacks == 2
MaxSubsAdmin == 1
MaxUsersSignup == 5
MaxOps == 3

\* ------------------------------------------------------ program constants
DaysPerMonth == 30
NULL == -1

VARIABLES
    now,        \* the wall clock read by datetime.utcnow()
    users,      \* table users
    customers,  \* table customers
    packs,      \* table subscription_packs
    subs,       \* table subscriptions
    apiKeys,    \* table api_keys
    last,       \* the last handler that wrote a subscription or an API key
    procs,      \* SpecConc: the in-flight handlers
    base,       \* SpecConc: table subscriptions when the current batch began
    batch       \* SpecConc: the requests of the current batch

vars == <<now, users, customers, packs, subs, apiKeys, last, procs, base, batch>>

\* ---------------------------------------------------------------- helpers
Min(S) == CHOOSE x \in S : \A y \in S : x <= y

Ids(S) == [i \in 1..Len(S) |-> i]

Reverse(s) == [i \in 1..Len(s) |-> s[Len(s) + 1 - i]]

NoEmail == ""

AdminEmail == "admin@example.com"

\* ------------------------------------------------------------- responses
Resp(status, detail, body) ==
    [status |-> status, detail |-> detail, body |-> body, total |-> 0]

HTTPException(status, detail) == Resp(status, detail, <<>>)

NoError == Resp(200, "", <<>>)

\* The error taxonomy of the handlers: the status code and message each raises.
Conflict(r) ==
    /\ r.status = 400
    /\ r.detail \in {"You already have an active or pending subscription",
                     "Customer already has an active subscription"}

PreconditionFailed(r) ==
    r.status = 400 /\ r.detail = "Only requested subscriptions can be approved"

NotFound(r) == r.status = 404

Unauthorized(r) == r.status = 401

Forbidden(r) == r.status = 403

Succeeded(r) == r.status = 200

\* ---------------------------------------------------------------- tokens
\* A bearer token: the claims it was signed over, and whether jwt.decode
\* accepts it (signature and exp).
create_access_token(email, role) == [sub |-> email, role |-> role, good |-> TRUE]

BadToken == [sub |-> AdminEmail, role |-> "admin", good |-> FALSE]

NoToken == [sub |-> NoEmail, role |-> "", good |-> FALSE]

verify_token(tok) ==
    IF tok.good
    THEN [ok |-> TRUE, sub |-> tok.sub]
    ELSE [ok |-> FALSE, sub |-> NoEmail]

\* The tokens a caller can present: one issued to each principal, and a bad one.
BearerInputs ==
    {create_access_token(users[u].email, users[u].role) : u \in DOMAIN users}
        \cup {BadToken}

Passwords == {"secret", "wrong"}

verify_password(plain, hashed) == hashed = <<"bcrypt", plain>>

\* ----------------------------------------------------------------- gates
\* Mutant: the errors raised inside the try block reach the caller as raised.
get_current_user_leaks_detail(tok) ==
    LET payload == verify_token(tok)
        found == {u \in DOMAIN users : users[u].email = payload.sub}
        bad == [user |-> 0, err |-> HTTPException(401, "Could not validate credentials")]
    IN  IF ~payload.ok THEN bad
        ELSE IF payload.sub = NoEmail THEN bad
        ELSE IF found = {} THEN [user |-> 0, err |-> HTTPException(401, "User not found")]
        ELSE IF ~users[Min(found)].is_active
        THEN [user |-> 0, err |-> HTTPException(400, "Inactive user")]
        ELSE [user |-> Min(found), err |-> NoError]

\* verify_token raises 401 on a JWTError; every HTTPException raised inside
\* the try block is caught by "except Exception" and replaced by one 401.
get_current_user(tok) ==
    LET payload == verify_token(tok)
        found == {u \in DOMAIN users : users[u].email = payload.sub}
        bad == [user |-> 0, err |-> HTTPException(401, "Could not validate credentials")]
    IN  IF ~payload.ok THEN bad
        ELSE IF payload.sub = NoEmail THEN bad
        ELSE IF found = {} THEN bad
        ELSE IF ~users[Min(found)].is_active THEN bad
        ELSE [user |-> Min(found), err |-> NoError]

\* Mutant: the role is not checked.
get_admin_user_any_role(tok) == get_current_user(tok)

get_admin_user(tok) ==
    LET cur == get_current_user(tok)
    IN  IF cur.user = 0 THEN cur
        ELSE IF users[cur.user].role # "admin"
        THEN [user |-> 0, err |-> HTTPException(403, "Admin access required")]
        ELSE cur

get_customer_user(tok) ==
    LET cur == get_current_user(tok)
    IN  IF cur.user = 0 THEN cur
        ELSE IF users[cur.user].role # "customer"
        THEN [user |-> 0, err |-> HTTPException(403, "Customer access required")]
        ELSE cur

\* get_customer_user, then the profile lookup every customer handler starts with.
customer_profile(tok) ==
    LET cur == get_customer_user(tok)
        found == {c \in DOMAIN customers : customers[c].user_id = cur.user}
    IN  IF cur.user = 0 THEN [cust |-> 0, err |-> cur.err]
        ELSE IF found = {}
        THEN [cust |-> 0, err |-> HTTPException(404, "Customer profile not found")]
        ELSE [cust |-> Min(found), err |-> NoError]

\* Mutant: a revoked key is accepted.
get_sdk_customer_accepts_revoked(x_api_key) ==
    LET found == {k \in DOMAIN apiKeys : apiKeys[k].key = x_api_key}
    IN  IF x_api_key = 0
        THEN [cust |-> 0, err |-> HTTPException(401, "API key required")]
        ELSE IF found = {}
        THEN [cust |-> 0, err |-> HTTPException(401, "Invalid API key")]
        ELSE LET c == apiKeys[Min(found)].customer_id
             IN  IF c \notin DOMAIN customers \/ ~customers[c].is_active
                 THEN [cust |-> 0,
                       err |-> HTTPException(401, "Customer not found or inactive")]
                 ELSE [cust |-> c, err |-> NoError]

\* x_api_key = 0 stands for a request without the X-API-Key header.
get_sdk_customer(x_api_key) ==
    LET found == {k \in DOMAIN apiKeys :
                      apiKeys[k].key = x_api_key /\ apiKeys[k].is_active}
    IN  IF x_api_key = 0
        THEN [cust |-> 0, err |-> HTTPException(401, "API key required")]
        ELSE IF found = {}
        THEN [cust |-> 0, err |-> HTTPException(401, "Invalid API key")]
        ELSE LET c == apiKeys[Min(found)].customer_id
             IN  IF c \notin DOMAIN customers \/ ~customers[c].is_active
                 THEN [cust |-> 0,
                       err |-> HTTPException(401, "Customer not found or inactive")]
                 ELSE [cust |-> c, err |-> NoError]

\* ------------------------------------------------------------ subscriptions
LiveStatuses == {"active", "approved", "requested"}

ActiveStatuses == {"active", "approved"}

Statuses == {"requested", "approved", "active", "inactive", "expired"}

\* The rows of S of customer c with a status in sts.
SubsOf(S, c, sts) ==
    {i \in DOMAIN S : S[i].customer_id = c /\ S[i].status \in sts}

timedelta(validity_months) == validity_months * DaysPerMonth

Subscription(c, p, status, requested_at, assigned_at, expires_at) ==
    [customer_id |-> c, pack_id |-> p, status |-> status,
     requested_at |-> requested_at, approved_at |-> NULL,
     assigned_at |-> assigned_at, expires_at |-> expires_at,
     deactivated_at |-> NULL]

\* What a handler leaves behind: table subscriptions, the row it wrote (0:
\* none) and its response.  A handler that raises leaves the table as it was.
Refused(S, err) == [subs |-> S, sub |-> 0, resp |-> err]

\* ------------------------------------------------- RequestSubscription
\* Mutant: the existence check forgets the requested subscriptions.
request_check_forgets_requested(S, c, sku) ==
    LET found == {p \in DOMAIN packs : packs[p].sku = sku /\ packs[p].is_active}
    IN  IF SubsOf(S, c, ActiveStatuses) # {}
        THEN [pack |-> 0,
              err |-> HTTPException(400,
                          "You already have an active or pending subscription")]
        ELSE IF found = {}
        THEN [pack |-> 0, err |-> HTTPException(404, "Subscription pack not found")]
        ELSE [pack |-> Min(found), err |-> NoError]

\* Mutant: the pack lookup also finds soft-deleted packs.
request_check_finds_deleted_pack(S, c, sku) ==
    LET found == {p \in DOMAIN packs : packs[p].sku = sku}
    IN  IF SubsOf(S, c, LiveStatuses) # {}
        THEN [pack |-> 0,
              err |-> HTTPException(400,
                          "You already have an active or pending subscription")]
        ELSE IF found = {}
        THEN [pack |-> 0, err |-> HTTPException(404, "Subscription pack not found")]
        ELSE [pack |-> Min(found), err |-> NoError]

\* The existence check and the pack lookup of request_customer_subscription
\* and request_sdk_subscription (the same code on either path).
request_check(S, c, sku) ==
    LET found == {p \in DOMAIN packs : packs[p].sku = sku /\ packs[p].is_active}
    IN  IF SubsOf(S, c, LiveStatuses) # {}
        THEN [pack |-> 0,
              err |-> HTTPException(400,
                          "You already have an active or pending subscription")]
        ELSE IF found = {}
        THEN [pack |-> 0, err |-> HTTPException(404, "Subscription pack not found")]
        ELSE [pack |-> Min(found), err |-> NoError]

\* db.add(Subscription(status="requested", requested_at=utcnow())); db.commit()
request_write(S, c, p, t) ==
    [subs |-> Append(S, Subscription(c, p, "requested", t, NULL, NULL)),
     sub |-> Len(S) + 1,
     resp |-> Resp(200, "Subscription request submitted successfully",
                   <<[id |-> Len(S) + 1, pack_name |-> packs[p].name,
                      pack_sku |-> packs[p].sku, price |-> packs[p].price,
                      status |-> "requested", requested_at |-> t]>>)]

request_body(S, c, sku, t) ==
    LET chk == request_check(S, c, sku)
    IN  IF chk.pack = 0 THEN Refused(S, chk.err)
        ELSE request_write(S, c, chk.pack, t)

\* -------------------------------------------------- AssignSubscription
\* Mutant: the existing-subscription check looks for active ones only.
assign_check_ignores_approved(S, customer_id, pack_id) ==
    IF customer_id \notin DOMAIN customers
    THEN HTTPException(404, "Customer not found")
    ELSE IF pack_id \notin DOMAIN packs
    THEN HTTPException(404, "Subscription pack not found")
    ELSE IF SubsOf(S, customer_id, {"active"}) # {}
    THEN HTTPException(400, "Customer already has an active subscription")
    ELSE NoError

\* The lookups and the existing-subscription check of assign_subscription.
assign_check(S, customer_id, pack_id) ==
    IF customer_id \notin DOMAIN customers
    THEN HTTPException(404, "Customer not found")
    ELSE IF pack_id \notin DOMAIN packs
    THEN HTTPException(404, "Subscription pack not found")
    ELSE IF SubsOf(S, customer_id, ActiveStatuses) # {}
    THEN HTTPException(400, "Customer already has an active subscription")
    ELSE NoError

\* expires_at is computed from a first utcnow() (t1), assigned_at is a second
\* utcnow() (t2); requested_at is left to the column's server default, the
\* time of the insert.
assign_write(S, customer_id, pack_id, t1, t2) ==
    LET expires_at == t1 + timedelta(packs[pack_id].validity_months)
    IN  [subs |-> Append(S, Subscription(customer_id, pack_id, "active",
                                         t2, t2, expires_at)),
         sub |-> Len(S) + 1,
         resp |-> Resp(200, "Subscription assigned successfully", <<>>)]

assign_body(S, customer_id, pack_id, t1, t2) ==
    LET err == assign_check(S, customer_id, pack_id)
    IN  IF ~Succeeded(err) THEN Refused(S, err)
        ELSE assign_write(S, customer_id, pack_id, t1, t2)

\* ------------------------------------------------- ApproveSubscription
\* Mutant: the status check is missing.
approve_check_any_status(S, subscription_id) ==
    IF subscription_id \notin DOMAIN S
    THEN HTTPException(404, "Subscription not found")
    ELSE IF SubsOf(S, S[subscription_id].customer_id, ActiveStatuses)
                \ {subscription_id} # {}
    THEN HTTPException(400, "Customer already has an active subscription")
    ELSE NoError

\* Mutant: the existing-subscription check looks for approved ones only.
approve_check_ignores_active(S, subscription_id) ==
    IF subscription_id \notin DOMAIN S
    THEN HTTPException(404, "Subscription not found")
    ELSE IF S[subscription_id].status # "requested"
    THEN HTTPException(400, "Only requested subscriptions can be approved")
    ELSE IF SubsOf(S, S[subscription_id].customer_id, {"approved"})
                \ {subscription_id} # {}
    THEN HTTPException(400, "Customer already has an active subscription")
    ELSE NoError

approve_check(S, subscription_id) ==
    IF subscription_id \notin DOMAIN S
    THEN HTTPException(404, "Subscription not found")
    ELSE IF S[subscription_id].status # "requested"
    THEN HTTPException(400, "Only requested subscriptions can be approved")
    ELSE IF SubsOf(S, S[subscription_id].customer_id, ActiveStatuses)
                \ {subscription_id} # {}
    THEN HTTPException(400, "Customer already has an active subscription")
    ELSE NoError

\* Mutant: the approval does not set expires_at.
approve_write_without_expiry(S, subscription_id, t1, t2) ==
    [subs |-> [S EXCEPT ![subscription_id].status = "approved",
                        ![subscription_id].approved_at = t1],
     sub |-> subscription_id,
     resp |-> Resp(200, "Subscription approved successfully", <<>>)]

\* approved_at is a first utcnow() (t1); expires_at is computed from a second (t2).
approve_write(S, subscription_id, t1, t2) ==
    LET validity_months == packs[S[subscription_id].pack_id].validity_months
    IN  [subs |-> [S EXCEPT ![subscription_id].status = "approved",
                            ![subscription_id].approved_at = t1,
                            ![subscription_id].expires_at =
                                t2 + timedelta(validity_months)],
         sub |-> subscription_id,
         resp |-> Resp(200, "Subscription approved successfully", <<>>)]

approve_body(S, subscription_id, t1, t2) ==
    LET err == approve_check(S, subscription_id)
    IN  IF ~Succeeded(err) THEN Refused(S, err)
        ELSE approve_write(S, subscription_id, t1, t2)

\* ------------------------------------------------ GetActiveSubscription
\* Mutant: the expiry is reported but the status is not written.
get_subscription_body_no_write(S, c, t) ==
    LET found == SubsOf(S, c, ActiveStatuses)
        expired(i) == S[i].expires_at # NULL /\ S[i].expires_at < t
    IN  IF found = {}
        THEN {Refused(S, HTTPException(404, "No active subscription found"))}
        ELSE {[subs |-> S,
               sub |-> i,
               resp |-> Resp(200, "", <<[id |-> i,
                                         status |-> IF expired(i) THEN "expired"
                                                    ELSE S[i].status,
                                         expires_at |-> S[i].expires_at,
                                         is_valid |-> ~expired(i)]>>)]
                 : i \in found}

\* Mutant: the lookup also finds expired subscriptions.
get_subscription_body_finds_expired(S, c, t) ==
    LET found == SubsOf(S, c, ActiveStatuses \cup {"expired"})
        expired(i) == S[i].expires_at # NULL /\ S[i].expires_at < t
        after(i) == IF expired(i) THEN [S EXCEPT ![i].status = "expired"] ELSE S
    IN  IF found = {}
        THEN {Refused(S, HTTPException(404, "No active subscription found"))}
        ELSE {[subs |-> after(i),
               sub |-> i,
               resp |-> Resp(200, "", <<[id |-> i,
                                         status |-> after(i)[i].status,
                                         expires_at |-> S[i].expires_at,
                                         is_valid |-> ~expired(i)]>>)]
                 : i \in found}

\* Mutant: a subscription already counts as expired on its day of expiry.
get_subscription_body_expires_at_boundary(S, c, t) ==
    LET found == SubsOf(S, c, ActiveStatuses)
        expired(i) == S[i].expires_at # NULL /\ S[i].expires_at <= t
        after(i) == IF expired(i) THEN [S EXCEPT ![i].status = "expired"] ELSE S
    IN  IF found = {}
        THEN {Refused(S, HTTPException(404, "No active subscription found"))}
        ELSE {[subs |-> after(i),
               sub |-> i,
               resp |-> Resp(200, "", <<[id |-> i,
                                         status |-> after(i)[i].status,
                                         expires_at |-> S[i].expires_at,
                                         is_valid |-> ~expired(i)]>>)]
                 : i \in found}

\* The body shared by get_customer_subscription and get_sdk_subscription: the
\* set of outcomes, one for each row the unordered .first() can return.
get_subscription_body(S, c, t) ==
    LET found == SubsOf(S, c, ActiveStatuses)
        expired(i) == S[i].expires_at # NULL /\ S[i].expires_at < t
        after(i) == IF expired(i) THEN [S EXCEPT ![i].status = "expired"] ELSE S
    IN  IF found = {}
        THEN {Refused(S, HTTPException(404, "No active subscription found"))}
        ELSE {[subs |-> after(i),
               sub |-> i,
               resp |-> Resp(200, "", <<[id |-> i,
                                         status |-> after(i)[i].status,
                                         expires_at |-> S[i].expires_at,
                                         is_valid |-> ~expired(i)]>>)]
                 : i \in found}

\* ----------------------------------------------- DeactivateSubscription
\* Mutant: the lookup also finds requested subscriptions.
deactivate_body_finds_requested(S, c, t) ==
    LET found == SubsOf(S, c, LiveStatuses)
    IN  IF found = {}
        THEN {Refused(S, HTTPException(404, "No active subscription found"))}
        ELSE {[subs |-> [S EXCEPT ![i].status = "inactive", ![i].deactivated_at = t],
               sub |-> i,
               resp |-> Resp(200, "Subscription deactivated successfully",
                             <<[id |-> i, deactivated_at |-> t]>>)]
                 : i \in found}

\* Mutant: the lookup also finds expired subscriptions.
deactivate_body_finds_expired(S, c, t) ==
    LET found == SubsOf(S, c, ActiveStatuses \cup {"expired"})
    IN  IF found = {}
        THEN {Refused(S, HTTPException(404, "No active subscription found"))}
        ELSE {[subs |-> [S EXCEPT ![i].status = "inactive", ![i].deactivated_at = t],
               sub |-> i,
               resp |-> Resp(200, "Subscription deactivated successfully",
                             <<[id |-> i, deactivated_at |-> t]>>)]
                 : i \in found}

\* Mutant: the lookup is not restricted to the caller's subscriptions.
deactivate_body_any_customer(S, c, t) ==
    LET found == {i \in DOMAIN S : S[i].status \in ActiveStatuses}
    IN  IF found = {}
        THEN {Refused(S, HTTPException(404, "No active subscription found"))}
        ELSE {[subs |-> [S EXCEPT ![i].status = "inactive", ![i].deactivated_at = t],
               sub |-> i,
               resp |-> Resp(200, "Subscription deactivated successfully",
                             <<[id |-> i, deactivated_at |-> t]>>)]
                 : i \in found}

deactivate_body(S, c, t) ==
    LET found == SubsOf(S, c, ActiveStatuses)
    IN  IF found = {}
        THEN {Refused(S, HTTPException(404, "No active subscription found"))}
        ELSE {[subs |-> [S EXCEPT ![i].status = "inactive", ![i].deactivated_at = t],
               sub |-> i,
               resp |-> Resp(200, "Subscription deactivated successfully",
                             <<[id |-> i, deactivated_at |-> t]>>)]
                 : i \in found}

\* ------------------------------------------------------------- listings
Paginate(rows, page, limit) ==
    SubSeq(rows, (page - 1) * limit + 1,
           IF page * limit < Len(rows) THEN page * limit ELSE Len(rows))

Row(S, i) == [id |-> i, status |-> S[i].status, expires_at |-> S[i].expires_at]

\* Mutant: the history leaves out the subscriptions that have ended.
history_body_hides_ended(S, c, page, limit, sort) ==
    LET mine == SelectSeq(Ids(S), LAMBDA i : S[i].customer_id = c
                                                 /\ S[i].status \in LiveStatuses)
        ordered == IF sort = "desc" THEN Reverse(mine) ELSE mine
        shown == Paginate(ordered, page, limit)
    IN  [subs |-> S, sub |-> 0,
         resp |-> [Resp(200, "", [k \in 1..Len(shown) |-> Row(S, shown[k])])
                       EXCEPT !.total = Len(mine)]]

\* ListHistory: the customer's rows by created_at (the insertion order), as read.
history_body(S, c, page, limit, sort) ==
    LET mine == SelectSeq(Ids(S), LAMBDA i : S[i].customer_id = c)
        ordered == IF sort = "desc" THEN Reverse(mine) ELSE mine
        shown == Paginate(ordered, page, limit)
    IN  [subs |-> S, sub |-> 0,
         resp |-> [Resp(200, "", [k \in 1..Len(shown) |-> Row(S, shown[k])])
                       EXCEPT !.total = Len(mine)]]

\* Admin listing: every row, or those of one status, as read.
list_subscriptions_body(S, page, limit, status) ==
    LET all == SelectSeq(Ids(S), LAMBDA i : status = "" \/ S[i].status = status)
        shown == Paginate(all, page, limit)
    IN  [subs |-> S, sub |-> 0,
         resp |-> [Resp(200, "", [k \in 1..Len(shown) |-> Row(S, shown[k])])
                       EXCEPT !.total = Len(all)]]

\* -------------------------------------------------------------- inputs
\* X-API-Key values: none (0), the keys issued so far, and one never issued.
KeyInputs == 0..(Len(apiKeys) + 1)

\* SKU values: those of the catalogue and an unknown one.
SkuInputs == {packs[p].sku : p \in DOMAIN packs} \cup {"no-such-sku"}

EmailInputs == {users[u].email : u \in DOMAIN users} \cup {"nobody@example.com"}

CustomerIds == 1..(Len(customers) + 1)

PackIds == 1..(Len(packs) + 1)

SubscriptionIds == 1..(Len(subs) + 1)

Pages == {1, 2}

Limits == {1}

Sorts == {"asc", "desc"}

StatusFilters == {"", "active"}

TickSteps == {DaysPerMonth}

\* ------------------------------------------------------ initial state
NoCommit == [op |-> "none", path |-> "", who |-> 0, sub |-> 0, resp |-> NoError]

\* The database after startup (create_default_admin), two signups, two packs
\* created by the admin and one SDK login (of the first customer); no
\* subscription yet.
InitDb ==
    /\ now = 0
    /\ users = <<[email |-> AdminEmail, password_hash |-> <<"bcrypt", "secret">>,
                  role |-> "admin", is_active |-> TRUE],
                 [email |-> "ann@example.com", password_hash |-> <<"bcrypt", "secret">>,
                  role |-> "customer", is_active |-> TRUE],
                 [email |-> "bob@example.com", password_hash |-> <<"bcrypt", "secret">>,
                  role |-> "customer", is_active |-> TRUE]>>
    /\ customers = <<[user_id |-> 2, name |-> "Ann Lee", email |-> "ann@example.com",
                       phone |-> "5550100001", is_active |-> TRUE],
                     [user_id |-> 3, name |-> "Bob Ray", email |-> "bob@example.com",
                       phone |-> "5550100004", is_active |-> TRUE]>>
    /\ packs = <<[name |-> "Basic", description |-> "One month", sku |-> "basic-plan",
                  price |-> 10, validity_months |-> 1, is_active |-> TRUE],
                 [name |-> "Premium", description |-> "Two months", sku |-> "premium-2m",
                  price |-> 18, validity_months |-> 2, is_active |-> TRUE]>>
    /\ subs = <<>>
    /\ apiKeys = <<[customer_id |-> 1, key |-> 1, is_active |-> TRUE]>>
    /\ last = NoCommit

Init ==
    /\ InitDb
    /\ procs = <<>>
    /\ base = <<>>
    /\ batch = <<>>

\* ------------------------------------------- what each handler does
\* Each operator is the set of outcomes of one handler in the current state:
\* [subs, sub, resp] of its body, who (the customer the gate resolved, 0:
\* none) and now (the clock when it returns).
Out(body, who, t) ==
    [subs |-> body.subs, sub |-> body.sub, resp |-> body.resp, who |-> who, now |-> t]

request_customer_outcomes(tok, sku) ==
    LET g == customer_profile(tok)
    IN  {Out(IF g.cust = 0 THEN Refused(subs, g.err)
             ELSE request_body(subs, g.cust, sku, now), g.cust, now)}

request_sdk_outcomes(key, pack_sku) ==
    LET g == get_sdk_customer(key)
    IN  {Out(IF g.cust = 0 THEN Refused(subs, g.err)
             ELSE IF pack_sku = ""
             THEN Refused(subs, HTTPException(400, "pack_sku is required"))
             ELSE request_body(subs, g.cust, pack_sku, now), g.cust, now)}

get_customer_outcomes(tok) ==
    LET g == customer_profile(tok)
    IN  IF g.cust = 0 THEN {Out(Refused(subs, g.err), 0, now)}
        ELSE {Out(b, g.cust, now) : b \in get_subscription_body(subs, g.cust, now)}

get_sdk_outcomes(key) ==
    LET g == get_sdk_customer(key)
    IN  IF g.cust = 0 THEN {Out(Refused(subs, g.err), 0, now)}
        ELSE {Out(b, g.cust, now) : b \in get_subscription_body(subs, g.cust, now)}

deactivate_customer_outcomes(tok) ==
    LET g == customer_profile(tok)
    IN  IF g.cust = 0 THEN {Out(Refused(subs, g.err), 0, now)}
        ELSE {Out(b, g.cust, now) : b \in deactivate_body(subs, g.cust, now)}

deactivate_sdk_outcomes(key) ==
    LET g == get_sdk_customer(key)
    IN  IF g.cust = 0 THEN {Out(Refused(subs, g.err), 0, now)}
        ELSE {Out(b, g.cust, now) : b \in deactivate_body(subs, g.cust, now)}

history_customer_outcomes(tok, page, limit) ==
    LET g == customer_profile(tok)
    IN  {Out(IF g.cust = 0 THEN Refused(subs, g.err)
             ELSE history_body(subs, g.cust, page, limit, "desc"), g.cust, now)}

history_sdk_outcomes(key, page, limit, sort) ==
    LET g == get_sdk_customer(key)
    IN  {Out(IF g.cust = 0 THEN Refused(subs, g.err)
             ELSE history_body(subs, g.cust, page, limit, sort), g.cust, now)}

list_subscriptions_outcomes(tok, page, limit, status) ==
    LET g == get_admin_user(tok)
    IN  {Out(IF g.user = 0 THEN Refused(subs, g.err)
             ELSE list_subscriptions_body(subs, page, limit, status), 0, now)}

\* The clock may move between the two utcnow() calls of a handler that
\* reaches them: the second reads now + d, and the handler returns then.
assign_outcomes(tok, customer_id, pack_id) ==
    LET g == get_admin_user(tok)
    IN  IF g.user = 0 THEN {Out(Refused(subs, g.err), 0, now)}
        ELSE IF ~Succeeded(assign_check(subs, customer_id, pack_id))
        THEN {Out(assign_body(subs, customer_id, pack_id, now, now), 0, now)}
        ELSE {Out(assign_body(subs, customer_id, pack_id, now, now + d), 0, now + d)
                  : d \in 0..MaxSkew}

approve_outcomes(tok, subscription_id) ==
    LET g == get_admin_user(tok)
    IN  IF g.user = 0 THEN {Out(Refused(subs, g.err), 0, now)}
        ELSE IF ~Succeeded(approve_check(subs, subscription_id))
        THEN {Out(approve_body(subs, subscription_id, now, now), 0, now)}
        ELSE {Out(approve_body(subs, subscription_id, now, now + d), 0, now + d)
                  : d \in 0..MaxSkew}

\* ------------------------------------------------- the handlers (atomic)
\* One request served: the handler's outcome becomes the state.  last keeps
\* the handler and the response of the latest one that wrote a row.
Handle(op, path, outcomes) ==
    \E out \in outcomes :
        /\ Len(out.subs) <= MaxSubs
        /\ out.now <= MaxNow
        /\ subs' = out.subs
        /\ now' = out.now
        /\ last' = IF out.sub # 0 /\ out.subs # subs
                   THEN [op |-> op, path |-> path, who |-> out.who,
                         sub |-> out.sub, resp |-> out.resp]
                   ELSE last
        /\ UNCHANGED <<users, customers, packs, apiKeys, procs, base, batch>>

\* Time passes between requests.
Tick(d) ==
    /\ now + d <= MaxNow
    /\ now' = now + d
    /\ UNCHANGED <<users, customers, packs, subs, apiKeys, last, procs, base, batch>>

request_customer_subscription(tok, sku) ==
    Handle("request", "customer", request_customer_outcomes(tok, sku))

request_sdk_subscription(key, pack_sku) ==
    Handle("request", "sdk", request_sdk_outcomes(key, pack_sku))

get_customer_subscription(tok) ==
    Handle("get", "customer", get_customer_outcomes(tok))

get_sdk_subscription(key) ==
    Handle("get", "sdk", get_sdk_outcomes(key))

deactivate_customer_subscription(tok) ==
    Handle("deactivate", "customer", deactivate_customer_outcomes(tok))

deactivate_sdk_subscription(key) ==
    Handle("deactivate", "sdk", deactivate_sdk_outcomes(key))

get_customer_subscription_history(tok, page, limit) ==
    Handle("history", "customer", history_customer_outcomes(tok, page, limit))

get_sdk_subscription_history(key, page, limit, sort) ==
    Handle("history", "sdk", history_sdk_outcomes(key, page, limit, sort))

list_subscriptions(tok, page, limit, status) ==
    Handle("list", "admin", list_subscriptions_outcomes(tok, page, limit, status))

assign_subscription(tok, customer_id, pack_id) ==
    Handle("assign", "admin", assign_outcomes(tok, customer_id, pack_id))

approve_subscription(tok, subscription_id) ==
    Handle("approve", "admin", approve_outcomes(tok, subscription_id))

\* Mutant: every successful login mints a key.
sdk_login_outcome_always_mints(email, password) ==
    LET found == {u \in DOMAIN users : users[u].email = email}
        user == Min(found)
        profile == {c \in DOMAIN customers : customers[c].user_id = user}
        customer == Min(profile)
    IN  IF found = {} \/ ~verify_password(password, users[user].password_hash)
               \/ users[user].role # "customer"
        THEN [apiKeys |-> apiKeys, who |-> 0,
              resp |-> HTTPException(401, "Invalid credentials")]
        ELSE IF ~users[user].is_active
        THEN [apiKeys |-> apiKeys, who |-> 0,
              resp |-> HTTPException(400, "User account is disabled")]
        ELSE IF profile = {}
        THEN [apiKeys |-> apiKeys, who |-> 0,
              resp |-> HTTPException(404, "Customer profile not found")]
        ELSE [apiKeys |-> Append(apiKeys, [customer_id |-> customer,
                                           key |-> Len(apiKeys) + 1,
                                           is_active |-> TRUE]),
              who |-> customer,
              resp |-> Resp(200, "", <<[api_key |-> Len(apiKeys) + 1]>>)]

\* SDK login: the customer's active key, or a new one when there is none.
sdk_login_outcome(email, password) ==
    LET found == {u \in DOMAIN users : users[u].email = email}
        user == Min(found)
        profile == {c \in DOMAIN customers : customers[c].user_id = user}
        customer == Min(profile)
        existing_key == {k \in DOMAIN apiKeys :
                             apiKeys[k].customer_id = customer /\ apiKeys[k].is_active}
        api_key_value == IF existing_key # {} THEN apiKeys[Min(existing_key)].key
                         ELSE Len(apiKeys) + 1
    IN  IF found = {} \/ ~verify_password(password, users[user].password_hash)
               \/ users[user].role # "customer"
        THEN [apiKeys |-> apiKeys, who |-> 0,
              resp |-> HTTPException(401, "Invalid credentials")]
        ELSE IF ~users[user].is_active
        THEN [apiKeys |-> apiKeys, who |-> 0,
              resp |-> HTTPException(400, "User account is disabled")]
        ELSE IF profile = {}
        THEN [apiKeys |-> apiKeys, who |-> 0,
              resp |-> HTTPException(404, "Customer profile not found")]
        ELSE [apiKeys |-> IF existing_key # {} THEN apiKeys
                          ELSE Append(apiKeys, [customer_id |-> customer,
                                                key |-> api_key_value,
                                                is_active |-> TRUE]),
              who |-> customer,
              resp |-> Resp(200, "", <<[api_key |-> api_key_value]>>)]

sdk_login(email, password) ==
    LET out == sdk_login_outcome(email, password)
    IN  /\ apiKeys' = out.apiKeys
        /\ last' = IF out.apiKeys # apiKeys
                   THEN [op |-> "login", path |-> "sdk", who |-> out.who,
                         sub |-> 0, resp |-> out.resp]
                   ELSE last
        /\ UNCHANGED <<now, users, customers, packs, subs, procs, base, batch>>

Next ==
    \/ \E d \in TickSteps : Tick(d)
    \/ \E email \in EmailInputs, password \in Passwords : sdk_login(email, password)
    \/ \E tok \in BearerInputs, sku \in SkuInputs :
           request_customer_subscription(tok, sku)
    \/ \E key \in KeyInputs, sku \in SkuInputs \cup {""} :
           request_sdk_subscription(key, sku)
    \/ \E tok \in BearerInputs : get_customer_subscription(tok)
    \/ \E key \in KeyInputs : get_sdk_subscription(key)
    \/ \E tok \in BearerInputs : deactivate_customer_subscription(tok)
    \/ \E key \in KeyInputs : deactivate_sdk_subscription(key)
    \/ \E tok \in BearerInputs, page \in Pages, limit \in Limits :
           get_customer_subscription_history(tok, page, limit)
    \/ \E key \in KeyInputs, page \in Pages, limit \in Limits, sort \in Sorts :
           get_sdk_subscription_history(key, page, limit, sort)
    \/ \E tok \in BearerInputs, page \in Pages, limit \in Limits,
          status \in StatusFilters :
           list_subscriptions(tok, page, limit, status)
    \/ \E tok \in BearerInputs, c \in CustomerIds, p \in PackIds :
           assign_subscription(tok, c, p)
    \/ \E tok \in BearerInputs, s \in SubscriptionIds : approve_subscription(tok, s)

Spec == Init /\ [][Next]_vars

\* ------------------------------------- the handlers, check and write apart
\* Under SpecConc the lifecycle handlers of authenticated callers run as two
\* steps each: the queries and checks up to the last raise, then the insert
\* or update with its commit.  Two requests are in flight at most; a batch is
\* the requests begun since the server was last idle.
ProcIds == {1, 2}

IdleProc == [pc |-> "idle", op |-> "", cust |-> 0, sku |-> "", pack |-> 0, sub |-> 0]

InitConc ==
    /\ InitDb
    /\ procs = [p \in ProcIds |-> IdleProc]
    /\ base = <<>>
    /\ batch = <<>>

\* Request p begins: it joins the batch, and its check decides whether it
\* raises (done) or goes on to its write (checked).
Begin(p, req, ok) ==
    /\ procs[p].pc = "idle"
    /\ procs' = [procs EXCEPT ![p] = [req EXCEPT !.pc = IF ok THEN "checked" ELSE "done"]]
    /\ base' = IF batch = <<>> THEN subs ELSE base
    /\ batch' = Append(batch, req)
    /\ UNCHANGED <<now, users, customers, packs, subs, apiKeys, last>>

request_check_step(p, c, sku) ==
    LET chk == request_check(subs, c, sku)
    IN  Begin(p, [IdleProc EXCEPT !.op = "request", !.cust = c, !.sku = sku,
                                  !.pack = chk.pack],
              chk.pack # 0)

assign_check_step(p, customer_id, pack_id) ==
    Begin(p, [IdleProc EXCEPT !.op = "assign", !.cust = customer_id, !.pack = pack_id],
          Succeeded(assign_check(subs, customer_id, pack_id)))

approve_check_step(p, subscription_id) ==
    Begin(p, [IdleProc EXCEPT !.op = "approve", !.sub = subscription_id],
          Succeeded(approve_check(subs, subscription_id)))

\* The write of a request whose check passed, on the table as it is now.
write_step(p) ==
    LET r == procs[p]
        out == IF r.op = "request" THEN request_write(subs, r.cust, r.pack, now)
               ELSE IF r.op = "assign"
               THEN assign_write(subs, r.cust, r.pack, now, now)
               ELSE approve_write(subs, r.sub, now, now)
    IN  /\ r.pc = "checked"
        /\ Len(out.subs) <= MaxSubs
        /\ subs' = out.subs
        /\ procs' = [procs EXCEPT ![p].pc = "done"]
        /\ UNCHANGED <<now, users, customers, packs, apiKeys, last, base, batch>>

\* Every request of the batch has returned: the server is idle again.
next_batch ==
    /\ batch # <<>>
    /\ \A p \in ProcIds : procs[p].pc # "checked"
    /\ procs' = [p \in ProcIds |-> IdleProc]
    /\ base' = subs
    /\ batch' = <<>>
    /\ UNCHANGED <<now, users, customers, packs, subs, apiKeys, last>>

NextConc ==
    \/ \E p \in ProcIds, c \in DOMAIN customers, sku \in SkuInputs :
           request_check_step(p, c, sku)
    \/ \E p \in ProcIds, c \in CustomerIds, pk \in PackIds :
           assign_check_step(p, c, pk)
    \/ \E p \in ProcIds, s \in SubscriptionIds : approve_check_step(p, s)
    \/ \E p \in ProcIds : write_step(p)
    \/ next_batch

SpecConc == InitConc /\ [][NextConc]_vars

\* The table after request r runs alone, as one atomic handler, on table S.
Alone(S, r) ==
    IF r.op = "request" THEN request_body(S, r.cust, r.sku, now).subs
    ELSE IF r.op = "assign" THEN assign_body(S, r.cust, r.pack, now, now).subs
    ELSE approve_body(S, r.sub, now, now).subs

\* The tables the batch's requests leave when run one after another from
\* table S, in either order.
SerialResults(S, reqs) ==
    IF Len(reqs) = 0 THEN {S}
    ELSE IF Len(reqs) = 1 THEN {Alone(S, reqs[1])}
    ELSE {Alone(Alone(S, reqs[1]), reqs[2]), Alone(Alone(S, reqs[2]), reqs[1])}

\* The rows of customer c in table S, without their order: each row with the
\* number of times it occurs.
RowsOf(S, c) ==
    LET mine == {i \in DOMAIN S : S[i].customer_id = c}
    IN  [r \in {S[i] : i \in mine} |-> Cardinality({i \in mine : S[i] = r})]

\* ------------------------------------ customers and packs (routers/admin.py)
\* What a management handler leaves behind: the four tables and its response.
Kept(resp) ==
    [users |-> users, customers |-> customers, packs |-> packs, subs |-> subs,
     resp |-> resp]

ActiveCustomers == SelectSeq(Ids(customers), LAMBDA c : customers[c].is_active)

ActivePacks == SelectSeq(Ids(packs), LAMBDA p : packs[p].is_active)

\* A customer and a pack as the responses serialise them.
CustomerOut(c, row) ==
    [id |-> c, name |-> row.name, email |-> row.email, phone |-> row.phone]

CustomerRow(c) == CustomerOut(c, customers[c])

PackOut(p, row) ==
    [id |-> p, name |-> row.name, description |-> row.description, sku |-> row.sku,
     price |-> row.price, validity_months |-> row.validity_months]

PackRow(p) == PackOut(p, packs[p])

\* func.sum(SubscriptionPack.price) over the joined rows; 0.0 when none.
RECURSIVE SumPrices(_)
SumPrices(rows) ==
    IF rows = <<>> THEN 0
    ELSE packs[subs[Head(rows)].pack_id].price + SumPrices(Tail(rows))

\* Mutant: the dashboard counts the subscriptions of status active only.
get_dashboard_outcome_active_only(tok) ==
    LET g == get_admin_user(tok)
        active == SelectSeq(Ids(subs), LAMBDA s : subs[s].status = "active")
        pending == SelectSeq(Ids(subs), LAMBDA s : subs[s].status = "requested")
        recent == SubSeq(Reverse(Ids(subs)), 1, IF Len(subs) < 5 THEN Len(subs) ELSE 5)
    IN  IF g.user = 0 THEN Kept(g.err)
        ELSE Kept(Resp(200, "",
                 <<[total_customers |-> Len(ActiveCustomers),
                    active_subscriptions |-> Len(active),
                    pending_requests |-> Len(pending),
                    total_revenue |-> SumPrices(active),
                    recent_activities |->
                        [k \in DOMAIN recent |->
                            [type |-> subs[recent[k]].status,
                             customer |-> customers[subs[recent[k]].customer_id].name,
                             pack |-> packs[subs[recent[k]].pack_id].name]]]>>))

get_dashboard_outcome(tok) ==
    LET g == get_admin_user(tok)
        active == SelectSeq(Ids(subs), LAMBDA s : subs[s].status \in ActiveStatuses)
        pending == SelectSeq(Ids(subs), LAMBDA s : subs[s].status = "requested")
        recent == SubSeq(Reverse(Ids(subs)), 1, IF Len(subs) < 5 THEN Len(subs) ELSE 5)
    IN  IF g.user = 0 THEN Kept(g.err)
        ELSE Kept(Resp(200, "",
                 <<[total_customers |-> Len(ActiveCustomers),
                    active_subscriptions |-> Len(active),
                    pending_requests |-> Len(pending),
                    total_revenue |-> SumPrices(active),
                    recent_activities |->
                        [k \in DOMAIN recent |->
                            [type |-> subs[recent[k]].status,
                             customer |-> customers[subs[recent[k]].customer_id].name,
                             pack |-> packs[subs[recent[k]].pack_id].name]]]>>))

list_customers_outcome(tok, page, limit) ==
    LET g == get_admin_user(tok)
        shown == Paginate(ActiveCustomers, page, limit)
    IN  IF g.user = 0 THEN Kept(g.err)
        ELSE Kept([Resp(200, "", [k \in 1..Len(shown) |-> CustomerRow(shown[k])])
                       EXCEPT !.total = Len(ActiveCustomers)])

\* The user and the profile that create_customer and customer_signup insert.
NewCustomer(name, email, password, phone) ==
    [users |-> Append(users, [email |-> email, password_hash |-> <<"bcrypt", password>>,
                              role |-> "customer", is_active |-> TRUE]),
     customers |-> Append(customers, [user_id |-> Len(users) + 1, name |-> name,
                                      email |-> email, phone |-> phone,
                                      is_active |-> TRUE])]

EmailTaken(email) ==
    \/ \E u \in DOMAIN users : users[u].email = email
    \/ \E c \in DOMAIN customers : customers[c].email = email

\* Mutant: the email check looks at the customer profiles only.
create_customer_outcome_checks_profiles_only(tok, customer_data) ==
    LET g == get_admin_user(tok)
        new == NewCustomer(customer_data.name, customer_data.email, "temporary",
                           customer_data.phone)
    IN  IF g.user = 0 THEN Kept(g.err)
        ELSE IF \E c \in DOMAIN customers : customers[c].email = customer_data.email
        THEN Kept(HTTPException(400, "Email already registered"))
        ELSE [Kept(Resp(200, "Customer created successfully",
                        <<CustomerOut(Len(customers) + 1, customer_data)>>))
                  EXCEPT !.users = new.users, !.customers = new.customers]

\* The account gets a temporary password drawn by the server.
create_customer_outcome(tok, customer_data) ==
    LET g == get_admin_user(tok)
        new == NewCustomer(customer_data.name, customer_data.email, "temporary",
                           customer_data.phone)
    IN  IF g.user = 0 THEN Kept(g.err)
        ELSE IF EmailTaken(customer_data.email)
        THEN Kept(HTTPException(400, "Email already registered"))
        ELSE [Kept(Resp(200, "Customer created successfully",
                        <<CustomerOut(Len(customers) + 1, customer_data)>>))
                  EXCEPT !.users = new.users, !.customers = new.customers]

get_customer_outcome(tok, customer_id) ==
    LET g == get_admin_user(tok)
    IN  IF g.user = 0 THEN Kept(g.err)
        ELSE IF customer_id \notin DOMAIN customers \/ ~customers[customer_id].is_active
        THEN Kept(HTTPException(404, "Customer not found"))
        ELSE Kept(Resp(200, "", <<CustomerRow(customer_id)>>))

\* The body of an update request: given holds the fields the request
\* sets, every other field is None.  A field is applied when the code finds
\* it truthy (`if data.name:`), price when it is not None.
StrGiven(data, field) == field \in data.given /\ data[field] # ""

IntGiven(data, field) == field \in data.given /\ data[field] # 0

NoCustomerUpdate == [given |-> {}, name |-> "", email |-> "", phone |-> ""]

update_customer_outcome(tok, customer_id, customer_data) ==
    LET g == get_admin_user(tok)
        customer == customers[customer_id]
        new_email == StrGiven(customer_data, "email")
                         /\ customer_data.email # customer.email
        existing_user == \E u \in DOMAIN users : users[u].email = customer_data.email
        existing_customer ==
            \E c \in DOMAIN customers :
                customers[c].email = customer_data.email /\ c # customer_id
        after ==
            [customer EXCEPT
                !.email = IF new_email THEN customer_data.email ELSE @,
                !.name = IF StrGiven(customer_data, "name") THEN customer_data.name ELSE @,
                !.phone = IF StrGiven(customer_data, "phone")
                          THEN customer_data.phone ELSE @]
    IN  IF g.user = 0 THEN Kept(g.err)
        ELSE IF customer_id \notin DOMAIN customers \/ ~customers[customer_id].is_active
        THEN Kept(HTTPException(404, "Customer not found"))
        ELSE IF new_email /\ (existing_user \/ existing_customer)
        THEN Kept(HTTPException(400, "Email already registered"))
        ELSE [Kept(Resp(200, "", <<CustomerOut(customer_id, after)>>))
                  EXCEPT !.customers = [customers EXCEPT ![customer_id] = after],
                         !.users = IF new_email /\ customer.user_id \in DOMAIN users
                                   THEN [users EXCEPT
                                            ![customer.user_id].email = after.email]
                                   ELSE users]

\* The lookup does not filter on is_active; only the profile is flagged.
delete_customer_outcome(tok, customer_id) ==
    LET g == get_admin_user(tok)
    IN  IF g.user = 0 THEN Kept(g.err)
        ELSE IF customer_id \notin DOMAIN customers
        THEN Kept(HTTPException(404, "Customer not found"))
        ELSE [Kept(Resp(200, "Customer deleted successfully", <<>>))
                  EXCEPT !.customers = [customers EXCEPT ![customer_id].is_active = FALSE]]

list_subscription_packs_outcome(tok, page, limit) ==
    LET g == get_admin_user(tok)
        shown == Paginate(ActivePacks, page, limit)
    IN  IF g.user = 0 THEN Kept(g.err)
        ELSE Kept([Resp(200, "", [k \in 1..Len(shown) |-> PackRow(shown[k])])
                       EXCEPT !.total = Len(ActivePacks)])

\* Mutant: the stored pack always gets a validity of one month.
create_subscription_pack_outcome_stores_default_validity(tok, pack_data) ==
    LET g == get_admin_user(tok)
    IN  IF g.user = 0 THEN Kept(g.err)
        ELSE IF \E p \in DOMAIN packs : packs[p].sku = pack_data.sku
        THEN Kept(HTTPException(400, "SKU already exists"))
        ELSE [Kept(Resp(200, "", <<PackOut(Len(packs) + 1, pack_data)>>))
                  EXCEPT !.packs = Append(packs,
                                       [name |-> pack_data.name,
                                        description |-> pack_data.description,
                                        sku |-> pack_data.sku,
                                        price |-> pack_data.price,
                                        validity_months |-> 1,
                                        is_active |-> TRUE])]

\* pack_data: a SubscriptionPackCreate that passed validation (price >= 0,
\* 1 <= validity_months <= 12).  Prices are whole amounts of the currency's
\* smallest unit; the Float column stores and returns the value it is given.
create_subscription_pack_outcome(tok, pack_data) ==
    LET g == get_admin_user(tok)
    IN  IF g.user = 0 THEN Kept(g.err)
        ELSE IF \E p \in DOMAIN packs : packs[p].sku = pack_data.sku
        THEN Kept(HTTPException(400, "SKU already exists"))
        ELSE [Kept(Resp(200, "", <<PackOut(Len(packs) + 1, pack_data)>>))
                  EXCEPT !.packs = Append(packs,
                                       [name |-> pack_data.name,
                                        description |-> pack_data.description,
                                        sku |-> pack_data.sku,
                                        price |-> pack_data.price,
                                        validity_months |-> pack_data.validity_months,
                                        is_active |-> TRUE])]

get_subscription_pack_outcome(tok, pack_id) ==
    LET g == get_admin_user(tok)
    IN  IF g.user = 0 THEN Kept(g.err)
        ELSE IF pack_id \notin DOMAIN packs \/ ~packs[pack_id].is_active
        THEN Kept(HTTPException(404, "Subscription pack not found"))
        ELSE Kept(Resp(200, "", <<PackRow(pack_id)>>))

NoPackUpdate ==
    [given |-> {}, name |-> "", description |-> "", sku |-> "", price |-> NULL,
     validity_months |-> NULL]

\* Mutant: the SKU of an update is not checked against the other packs.
update_subscription_pack_outcome_no_sku_check(tok, pack_id, pack_data) ==
    LET g == get_admin_user(tok)
        pack == packs[pack_id]
        after ==
            [pack EXCEPT
                !.name = IF StrGiven(pack_data, "name") THEN pack_data.name ELSE @,
                !.description = IF StrGiven(pack_data, "description")
                                THEN pack_data.description ELSE @,
                !.sku = IF StrGiven(pack_data, "sku") THEN pack_data.sku ELSE @,
                !.price = IF "price" \in pack_data.given THEN pack_data.price ELSE @,
                !.validity_months = IF IntGiven(pack_data, "validity_months")
                                    THEN pack_data.validity_months ELSE @]
    IN  IF g.user = 0 THEN Kept(g.err)
        ELSE IF pack_id \notin DOMAIN packs \/ ~packs[pack_id].is_active
        THEN Kept(HTTPException(404, "Subscription pack not found"))
        ELSE [Kept(Resp(200, "", <<PackOut(pack_id, after)>>))
                  EXCEPT !.packs = [packs EXCEPT ![pack_id] = after]]

\* pack_data: a SubscriptionPackUpdate that passed validation.
update_subscription_pack_outcome(tok, pack_id, pack_data) ==
    LET g == get_admin_user(tok)
        pack == packs[pack_id]
        new_sku == StrGiven(pack_data, "sku") /\ pack_data.sku # pack.sku
        existing_pack == \E p \in DOMAIN packs : packs[p].sku = pack_data.sku
        after ==
            [pack EXCEPT
                !.name = IF StrGiven(pack_data, "name") THEN pack_data.name ELSE @,
                !.description = IF StrGiven(pack_data, "description")
                                THEN pack_data.description ELSE @,
                !.sku = IF StrGiven(pack_data, "sku") THEN pack_data.sku ELSE @,
                !.price = IF "price" \in pack_data.given THEN pack_data.price ELSE @,
                !.validity_months = IF IntGiven(pack_data, "validity_months")
                                    THEN pack_data.validity_months ELSE @]
    IN  IF g.user = 0 THEN Kept(g.err)
        ELSE IF pack_id \notin DOMAIN packs \/ ~packs[pack_id].is_active
        THEN Kept(HTTPException(404, "Subscription pack not found"))
        ELSE IF new_sku /\ existing_pack
        THEN Kept(HTTPException(400, "SKU already exists"))
        ELSE [Kept(Resp(200, "", <<PackOut(pack_id, after)>>))
                  EXCEPT !.packs = [packs EXCEPT ![pack_id] = after]]

\* Mutant: only the subscriptions of status active hold a pack back.
delete_subscription_pack_outcome_ignores_approved(tok, pack_id) ==
    LET g == get_admin_user(tok)
        active_subscriptions ==
            {s \in DOMAIN subs : subs[s].pack_id = pack_id /\ subs[s].status = "active"}
    IN  IF g.user = 0 THEN Kept(g.err)
        ELSE IF pack_id \notin DOMAIN packs \/ ~packs[pack_id].is_active
        THEN Kept(HTTPException(404, "Subscription pack not found"))
        ELSE IF active_subscriptions # {}
        THEN Kept(HTTPException(400, "Cannot delete pack with active subscriptions"))
        ELSE [Kept(Resp(200, "Subscription pack deleted successfully", <<>>))
                  EXCEPT !.packs = [packs EXCEPT ![pack_id].is_active = FALSE]]

delete_subscription_pack_outcome(tok, pack_id) ==
    LET g == get_admin_user(tok)
        active_subscriptions ==
            {s \in DOMAIN subs : subs[s].pack_id = pack_id
                                     /\ subs[s].status \in ActiveStatuses}
    IN  IF g.user = 0 THEN Kept(g.err)
        ELSE IF pack_id \notin DOMAIN packs \/ ~packs[pack_id].is_active
        THEN Kept(HTTPException(404, "Subscription pack not found"))
        ELSE IF active_subscriptions # {}
        THEN Kept(HTTPException(400, "Cannot delete pack with active subscriptions"))
        ELSE [Kept(Resp(200, "Subscription pack deleted successfully", <<>>))
                  EXCEPT !.packs = [packs EXCEPT ![pack_id].is_active = FALSE]]

\* ----------------------------------------- routers/customer.py, the rest
\* The catalogue as customers see it: behind get_customer_user alone.
get_customer_subscription_packs_outcome(tok) ==
    LET g == get_customer_user(tok)
    IN  IF g.user = 0 THEN Kept(g.err)
        ELSE Kept(Resp(200, "", [k \in 1..Len(ActivePacks) |-> PackRow(ActivePacks[k])]))

\* request: a CustomerSignupRequest that passed validation.
customer_signup_outcome(request) ==
    LET new == NewCustomer(request.name, request.email, request.password, request.phone)
    IN  IF EmailTaken(request.email)
        THEN Kept(HTTPException(400, "Email already registered"))
        ELSE [Kept(Resp(200, "Account created successfully",
                        <<[token |-> create_access_token(request.email, "customer")]>>))
                  EXCEPT !.users = new.users, !.customers = new.customers]

\* ------------------------------------------ the handlers of SpecAdmin
\* One management request served: its outcome becomes the state.
Manage(out) ==
    /\ Len(out.users) <= MaxUsers
    /\ Len(out.packs) <= MaxPacks
    /\ users' = out.users
    /\ customers' = out.customers
    /\ packs' = out.packs
    /\ subs' = out.subs
    /\ UNCHANGED <<now, apiKeys, last, procs, base, batch>>

get_dashboard(tok) == Manage(get_dashboard_outcome(tok))

list_customers(tok, page, limit) == Manage(list_customers_outcome(tok, page, limit))

create_customer(tok, customer_data) == Manage(create_customer_outcome(tok, customer_data))

get_customer(tok, customer_id) == Manage(get_customer_outcome(tok, customer_id))

update_customer(tok, customer_id, customer_data) ==
    Manage(update_customer_outcome(tok, customer_id, customer_data))

delete_customer(tok, customer_id) == Manage(delete_customer_outcome(tok, customer_id))

list_subscription_packs(tok, page, limit) ==
    Manage(list_subscription_packs_outcome(tok, page, limit))

create_subscription_pack(tok, pack_data) ==
    Manage(create_subscription_pack_outcome(tok, pack_data))

get_subscription_pack(tok, pack_id) == Manage(get_subscription_pack_outcome(tok, pack_id))

update_subscription_pack(tok, pack_id, pack_data) ==
    Manage(update_subscription_pack_outcome(tok, pack_id, pack_data))

delete_subscription_pack(tok, pack_id) ==
    Manage(delete_subscription_pack_outcome(tok, pack_id))

get_customer_subscription_packs(tok) ==
    Manage(get_customer_subscription_packs_outcome(tok))

customer_signup(request) == Manage(customer_signup_outcome(request))

\* The database of SpecAdmin at the start: the default admin, one customer
\* with a live and a revoked API key, one customer whose account has been
\* disabled, and one pack.
InitAdminDb ==
    /\ now = 0
    /\ users = <<[email |-> AdminEmail, password_hash |-> <<"bcrypt", "secret">>,
                  role |-> "admin", is_active |-> TRUE],
                 [email |-> "ann@example.com", password_hash |-> <<"bcrypt", "secret">>,
                  role |-> "customer", is_active |-> TRUE],
                 [email |-> "eve@example.com", password_hash |-> <<"bcrypt", "secret">>,
                  role |-> "customer", is_active |-> FALSE]>>
    /\ customers = <<[user_id |-> 2, name |-> "Ann Lee", email |-> "ann@example.com",
                       phone |-> "5550100001", is_active |-> TRUE],
                     [user_id |-> 3, name |-> "Eve Fox", email |-> "eve@example.com",
                       phone |-> "5550100002", is_active |-> TRUE]>>
    /\ packs = <<[name |-> "Basic", description |-> "One month", sku |-> "basic-plan",
                  price |-> 10, validity_months |-> 1, is_active |-> TRUE]>>
    /\ subs = <<>>
    /\ apiKeys = <<[customer_id |-> 1, key |-> 1, is_active |-> FALSE],
                   [customer_id |-> 1, key |-> 2, is_active |-> TRUE]>>
    /\ last = NoCommit

InitAdmin ==
    /\ InitAdminDb
    /\ procs = <<>>
    /\ base = <<>>
    /\ batch = <<>>

\* The inputs of the management requests.
ManagerTokens ==
    {create_access_token(users[u].email, users[u].role) : u \in {1, 2}}

NewEmails == {"cat@example.com", "ann@example.com"}

NewSkus == {"premium-2m", "basic-plan"}

SignupRequests ==
    {[name |-> "Cat Doe", email |-> email, password |-> "secret",
      phone |-> "5550100003"] : email \in NewEmails}

NewCustomers ==
    {[name |-> "Cat Doe", email |-> email, phone |-> "5550100003"] : email \in NewEmails}

NewPacks ==
    {[name |-> "Premium", description |-> "Two months", sku |-> sku, price |-> 18,
      validity_months |-> 2] : sku \in NewSkus}

\* Updates of one field each, of two fields, and of none; a name, a
\* description or a phone may be given empty.
RenameUpdates ==
    {NoCustomerUpdate,
     [NoCustomerUpdate EXCEPT !.given = {"name"}, !.name = "Ann B. Lee"]}

CustomerUpdates ==
    RenameUpdates
        \cup {[NoCustomerUpdate EXCEPT !.given = {"email"}, !.email = email]
                  : email \in NewEmails \cup {"eve@example.com"}}
        \cup {[NoCustomerUpdate EXCEPT !.given = {"name", "phone"}, !.name = "",
                                       !.phone = "5550100009"]}

RepriceUpdates ==
    {NoPackUpdate, [NoPackUpdate EXCEPT !.given = {"price"}, !.price = 12]}

PackUpdates ==
    RepriceUpdates
        \cup {[NoPackUpdate EXCEPT !.given = {"sku"}, !.sku = sku] : sku \in NewSkus}
        \cup {[NoPackUpdate EXCEPT !.given = {"description"}, !.description = ""],
              [NoPackUpdate EXCEPT !.given = {"name", "validity_months"},
                                   !.name = "Starter", !.validity_months = 3],
              [NoPackUpdate EXCEPT !.given = {"price"}, !.price = 0]}

\* A lifecycle handler under SpecAdmin, where table subscriptions holds
\* MaxSubsAdmin rows at most.
Lifecycle(A) == A /\ Len(subs') <= MaxSubsAdmin

NextAdmin ==
    \/ \E email \in EmailInputs : sdk_login(email, "secret")
    \/ \E request \in SignupRequests : customer_signup(request)
    \/ \E tok \in BearerInputs, sku \in SkuInputs :
           Lifecycle(request_customer_subscription(tok, sku))
    \/ \E key \in KeyInputs, sku \in SkuInputs :
           Lifecycle(request_sdk_subscription(key, sku))
    \/ \E tok \in BearerInputs : Lifecycle(get_customer_subscription(tok))
    \/ \E key \in KeyInputs : Lifecycle(get_sdk_subscription(key))
    \/ \E tok \in BearerInputs : Lifecycle(deactivate_customer_subscription(tok))
    \/ \E key \in KeyInputs : Lifecycle(deactivate_sdk_subscription(key))
    \/ \E tok \in ManagerTokens, c \in CustomerIds, p \in PackIds :
           Lifecycle(assign_subscription(tok, c, p))
    \/ \E tok \in ManagerTokens, s \in SubscriptionIds :
           Lifecycle(approve_subscription(tok, s))
    \/ \E tok \in ManagerTokens : get_dashboard(tok)
    \/ \E tok \in ManagerTokens : list_customers(tok, 1, 10)
    \/ \E tok \in ManagerTokens, customer_data \in NewCustomers :
           create_customer(tok, customer_data)
    \/ \E tok \in ManagerTokens, c \in CustomerIds : get_customer(tok, c)
    \/ \E tok \in ManagerTokens, customer_data \in RenameUpdates :
           update_customer(tok, 1, customer_data)
    \/ \E tok \in ManagerTokens, c \in CustomerIds : delete_customer(tok, c)
    \/ \E tok \in ManagerTokens : list_subscription_packs(tok, 1, 10)
    \/ \E tok \in ManagerTokens, pack_data \in NewPacks :
           create_subscription_pack(tok, pack_data)
    \/ \E tok \in ManagerTokens, p \in PackIds : get_subscription_pack(tok, p)
    \/ \E tok \in ManagerTokens, pack_data \in RepriceUpdates :
           update_subscription_pack(tok, 1, pack_data)
    \/ \E tok \in ManagerTokens, p \in PackIds : delete_subscription_pack(tok, p)
    \/ \E tok \in BearerInputs : get_customer_subscription_packs(tok)

SpecAdmin == InitAdmin /\ [][NextAdmin]_vars

\* ------------------------------------------ the handlers of SpecManage
\* Customer and pack management with every kind of update, next to one
\* assignment at most: table subscriptions holds MaxSubsAdmin rows.
NextManage ==
    \/ \E request \in SignupRequests : customer_signup(request)
    \/ \E tok \in ManagerTokens, customer_data \in NewCustomers :
           create_customer(tok, customer_data)
    \/ \E tok \in ManagerTokens, c \in {1, Len(customers) + 1},
          customer_data \in CustomerUpdates :
           update_customer(tok, c, customer_data)
    \/ \E tok \in ManagerTokens, c \in CustomerIds : get_customer(tok, c)
    \/ \E tok \in ManagerTokens, pack_data \in NewPacks :
           create_subscription_pack(tok, pack_data)
    \/ \E tok \in ManagerTokens, p \in {1, Len(packs) + 1}, pack_data \in PackUpdates :
           update_subscription_pack(tok, p, pack_data)
    \/ \E tok \in ManagerTokens, p \in PackIds : delete_subscription_pack(tok, p)
    \/ \E tok \in ManagerTokens, p \in PackIds : get_subscription_pack(tok, p)
    \/ \E tok \in ManagerTokens : list_subscription_packs(tok, 1, 10)
    \/ \E tok \in BearerInputs : get_customer_subscription_packs(tok)
    \/ \E tok \in ManagerTokens, p \in PackIds :
           Lifecycle(assign_subscription(tok, 1, p))
    \/ \E tok \in ManagerTokens, sku \in SkuInputs :
           Lifecycle(request_customer_subscription(tok, sku))

SpecManage == InitAdmin /\ [][NextManage]_vars

\* -------------------------------------------- the handlers of SpecDash
\* The dashboard next to the handlers that change what it counts.
NextDash ==
    \/ \E tok \in BearerInputs, sku \in SkuInputs : request_customer_subscription(tok, sku)
    \/ \E tok \in ManagerTokens, s \in SubscriptionIds : approve_subscription(tok, s)
    \/ \E tok \in ManagerTokens, c \in CustomerIds, p \in PackIds :
           assign_subscription(tok, c, p)
    \/ \E tok \in BearerInputs : deactivate_customer_subscription(tok)
    \/ \E tok \in ManagerTokens, c \in CustomerIds : delete_customer(tok, c)
    \/ \E tok \in ManagerTokens, pack_data \in RepriceUpdates :
           update_subscription_pack(tok, 1, pack_data)
    \/ \E tok \in ManagerTokens : get_dashboard(tok)

SpecDash == Init /\ [][NextDash]_vars

\* ------------------------- signup and create_customer, commit by commit
\* customer_signup and create_customer commit twice: the user first, the
\* profile second.  Each runs here in three steps (the email checks, the
\* first commit, the second commit), and other requests are served between
\* the steps of one.
IdleSignup ==
    [pc |-> "idle", name |-> "", email |-> "", password |-> "", phone |-> "",
     user_id |-> 0]

InitSignup ==
    /\ InitAdminDb
    /\ procs = [p \in ProcIds |-> IdleSignup]
    /\ base = <<>>
    /\ batch = <<>>

SignupEmails == NewEmails \cup {"dan@example.com"}

\* The checks of the handler: whoever passes them goes on to the commits.
Checked(p, passed, name, email, password, phone) ==
    /\ procs[p].pc = "idle"
    /\ procs' = IF passed
                THEN [procs EXCEPT ![p] = [pc |-> "checked", name |-> name,
                                           email |-> email, password |-> password,
                                           phone |-> phone, user_id |-> 0]]
                ELSE procs
    /\ UNCHANGED <<now, users, customers, packs, subs, apiKeys, last, base, batch>>

signup_check_step(p, request) ==
    Checked(p, Succeeded(customer_signup_outcome(request).resp),
            request.name, request.email, request.password, request.phone)

create_customer_check_step(p, tok, customer_data) ==
    Checked(p, Succeeded(create_customer_outcome(tok, customer_data).resp),
            customer_data.name, customer_data.email, "temporary", customer_data.phone)

\* db.add(user); db.commit(): users.email is unique, so the commit of a
\* second user with the email raises and the request ends there.
user_commit_step(p) ==
    LET r == procs[p]
        new == NewCustomer(r.name, r.email, r.password, r.phone)
    IN  /\ r.pc = "checked"
        /\ Len(users) < MaxUsersSignup
        /\ IF \E u \in DOMAIN users : users[u].email = r.email
           THEN /\ procs' = [procs EXCEPT ![p] = IdleSignup]
                /\ users' = users
           ELSE /\ procs' = [procs EXCEPT ![p].pc = "user_committed",
                                          ![p].user_id = Len(users) + 1]
                /\ users' = new.users
        /\ UNCHANGED <<now, customers, packs, subs, apiKeys, last, base, batch>>

\* db.add(customer); db.commit(): the profile of the user committed before.
profile_commit_step(p) ==
    LET r == procs[p]
    IN  /\ r.pc = "user_committed"
        /\ customers' = Append(customers, [user_id |-> r.user_id, name |-> r.name,
                                           email |-> r.email, phone |-> r.phone,
                                           is_active |-> TRUE])
        /\ procs' = [procs EXCEPT ![p] = IdleSignup]
        /\ UNCHANGED <<now, users, packs, subs, apiKeys, last, base, batch>>

customer_login_outcome(email, password) ==
    LET found == {u \in DOMAIN users : users[u].email = email}
        user == Min(found)
        profiles == {c \in DOMAIN customers : customers[c].user_id = user}
    IN  IF found = {} \/ ~verify_password(password, users[user].password_hash)
                     \/ users[user].role # "customer"
        THEN Kept(HTTPException(401, "Invalid credentials"))
        ELSE IF ~users[user].is_active
        THEN Kept(HTTPException(400, "User account is disabled"))
        ELSE IF profiles = {}
        THEN Kept(HTTPException(404, "Customer profile not found"))
        ELSE Kept(Resp(200, "", <<[token |-> create_access_token(email, "customer"),
                                   name |-> customers[Min(profiles)].name,
                                   phone |-> customers[Min(profiles)].phone]>>))

customer_login(email, password) ==
    LET out == customer_login_outcome(email, password)
    IN  /\ users' = out.users
        /\ customers' = out.customers
        /\ packs' = out.packs
        /\ subs' = out.subs
        /\ UNCHANGED <<now, apiKeys, last, procs, base, batch>>

NextSignup ==
    \/ \E p \in ProcIds, email \in SignupEmails :
           signup_check_step(p, [name |-> "Cat Doe", email |-> email,
                                 password |-> "secret", phone |-> "5550100003"])
    \/ \E p \in ProcIds, tok \in ManagerTokens, email \in SignupEmails :
           create_customer_check_step(p, tok, [name |-> "Cat Doe", email |-> email,
                                               phone |-> "5550100003"])
    \/ \E p \in ProcIds : user_commit_step(p)
    \/ \E p \in ProcIds : profile_commit_step(p)
    \/ \E email \in EmailInputs, password \in Passwords : customer_login(email, password)

SpecSignup == InitSignup /\ [][NextSignup]_vars

\* ================================================================ claims
AdminTokens == {tok \in BearerInputs : get_admin_user(tok).user # 0}

\* Every outcome of RequestSubscription, on either path, for a well-formed
\* request (a SKU is given).
RequestOutcomes ==
    UNION {request_customer_outcomes(tok, sku) : tok \in BearerInputs, sku \in SkuInputs}
        \cup UNION {request_sdk_outcomes(key, sku) : key \in KeyInputs, sku \in SkuInputs}

\* Every outcome of GetActiveSubscription, on either path.
GetOutcomes ==
    UNION {get_customer_outcomes(tok) : tok \in BearerInputs}
        \cup UNION {get_sdk_outcomes(key) : key \in KeyInputs}

\* Every outcome of a listing: customer and SDK history, admin listing.
ListingOutcomes ==
    UNION {history_customer_outcomes(tok, page, limit) :
               tok \in BearerInputs, page \in Pages, limit \in Limits}
        \cup UNION {history_sdk_outcomes(key, page, limit, sort) :
                        key \in KeyInputs, page \in Pages, limit \in Limits,
                        sort \in Sorts}
        \cup UNION {list_subscriptions_outcomes(tok, page, limit, status) :
                        tok \in BearerInputs, page \in Pages, limit \in Limits,
                        status \in StatusFilters}

\* A row past its expiry that still reads active or approved.
Stale(row) ==
    row.status \in ActiveStatuses /\ row.expires_at # NULL /\ row.expires_at < now

\* C1: in every reachable state each customer has at most one subscription
\* whose status is requested, approved or active.
C1_AtMostOneLive ==
    \A c \in DOMAIN customers : Cardinality(SubsOf(subs, c, LiveStatuses)) <= 1

\* C3: a RequestSubscription (customer or SDK path) by a customer who has a
\* subscription in {requested, approved, active} fails Conflict and creates
\* nothing; in particular the request that follows a successful request of
\* the same customer does.
C3_RequestConflict ==
    /\ \A out \in RequestOutcomes :
           (out.who # 0 /\ SubsOf(subs, out.who, LiveStatuses) # {})
               => (Conflict(out.resp) /\ out.subs = subs)
    /\ last.op = "request"
           => \A out \in RequestOutcomes :
                  out.who = last.who => (Conflict(out.resp) /\ out.subs = subs)

\* C3 witness: an SDK request has just created a subscription, and the same
\* customer's next request, on either path, is refused.
C3_Witness ==
    /\ last.op = "request" /\ last.path = "sdk"
    /\ subs[last.sub].status = "requested"
    /\ \E tok \in BearerInputs :
           \E out \in request_customer_outcomes(tok, "basic-plan") :
               out.who = last.who /\ Conflict(out.resp)
    /\ \E key \in KeyInputs :
           \E out \in request_sdk_outcomes(key, "premium-2m") :
               out.who = last.who /\ Conflict(out.resp)

\* C4: AssignSubscription to a customer who has a subscription in {requested,
\* approved, active}, one that is only requested included, fails Conflict and
\* creates nothing.
C4_AssignConflict ==
    \A tok \in AdminTokens, c \in DOMAIN customers, p \in DOMAIN packs :
        \A out \in assign_outcomes(tok, c, p) :
            SubsOf(subs, c, LiveStatuses) # {}
                => (Conflict(out.resp) /\ out.subs = subs)

\* C5: ApproveSubscription on a subscription whose status is not requested
\* fails PreconditionFailed and leaves the table unchanged; on an unknown id
\* it fails NotFound.
C5_ApprovePrecondition ==
    \A tok \in AdminTokens, s \in SubscriptionIds :
        \A out \in approve_outcomes(tok, s) :
            /\ s \notin DOMAIN subs => (NotFound(out.resp) /\ out.subs = subs)
            /\ (s \in DOMAIN subs /\ subs[s].status # "requested")
                   => (PreconditionFailed(out.resp) /\ out.subs = subs)

\* C5 witness: subscriptions in an approved and in a terminal status exist,
\* and approving either one is refused with PreconditionFailed.
C5_Witness ==
    \E tok \in AdminTokens, s1, s2 \in DOMAIN subs :
        /\ subs[s1].status = "approved"
        /\ subs[s2].status \in {"inactive", "expired"}
        /\ \A out \in approve_outcomes(tok, s1) \cup approve_outcomes(tok, s2) :
               PreconditionFailed(out.resp)

\* C6: ApproveSubscription on a requested subscription fails Conflict and
\* leaves it requested whenever another subscription of the same customer is
\* approved or active.
C6_ApproveConflict ==
    \A tok \in AdminTokens, s \in DOMAIN subs :
        \A out \in approve_outcomes(tok, s) :
            (/\ subs[s].status = "requested"
             /\ SubsOf(subs, subs[s].customer_id, ActiveStatuses) \ {s} # {})
                => (Conflict(out.resp) /\ out.subs = subs)

\* C6 witness: a customer holds a requested and an active subscription, and
\* approving the requested one is refused with Conflict.
C6_Witness ==
    \E tok \in AdminTokens, s \in DOMAIN subs :
        /\ subs[s].status = "requested"
        /\ SubsOf(subs, subs[s].customer_id, ActiveStatuses) # {}
        /\ \A out \in approve_outcomes(tok, s) : Conflict(out.resp)

\* C7: GetActiveSubscription (customer or SDK path) that finds the customer's
\* active or approved subscription past its expires_at writes status expired
\* to that row, and to nothing else, and returns it with status expired and
\* is_valid false.
C7_GetExpires ==
    \A out \in GetOutcomes :
        out.who # 0 =>
            LET found == SubsOf(subs, out.who, ActiveStatuses)
            IN  /\ found # {} => out.sub \in found
                /\ (/\ out.sub # 0
                    /\ subs[out.sub].expires_at # NULL
                    /\ subs[out.sub].expires_at < now)
                       => /\ out.subs = [subs EXCEPT ![out.sub].status = "expired"]
                          /\ Succeeded(out.resp)
                          /\ out.resp.body[1].id = out.sub
                          /\ out.resp.body[1].status = "expired"
                          /\ out.resp.body[1].is_valid = FALSE

\* C7 witness: a read has just moved a subscription to expired and returned
\* it as expired and not valid.
C7_Witness ==
    /\ last.op = "get"
    /\ subs[last.sub].status = "expired"
    /\ subs[last.sub].expires_at < now
    /\ last.resp.body[1].status = "expired"
    /\ last.resp.body[1].is_valid = FALSE

\* C8: no read returns a subscription past its expires_at with status active
\* or approved: GetActiveSubscription, the customer and SDK histories and the
\* admin listing all show it as expired.
C8_ReadersSeeExpired ==
    \A out \in GetOutcomes \cup ListingOutcomes :
        \A k \in DOMAIN out.resp.body : ~Stale(out.resp.body[k])

\* C9 as claimed: after a read has moved a subscription to expired, the same
\* customer's next read returns the same result, that subscription with
\* status expired, and changes nothing.
C9_RereadSameResult ==
    last.op = "get"
        => \A out \in GetOutcomes :
               out.who = last.who => (out.resp = last.resp /\ out.subs = subs)

\* C9 as amended: after a read has moved a subscription to expired, the same
\* customer's next read never returns or changes that subscription again;
\* when the customer has no other active or approved subscription it fails
\* NotFound and changes no stored field.
C9_RereadIdempotent ==
    last.op = "get"
        => /\ subs[last.sub].status = "expired"
           /\ \A out \in GetOutcomes :
                  out.who = last.who
                      => /\ out.sub # last.sub
                         /\ out.subs[last.sub] = subs[last.sub]
                         /\ SubsOf(subs, last.who, ActiveStatuses) = {}
                                => (NotFound(out.resp) /\ out.subs = subs)

\* C9 witness: a read has just expired a subscription, and the customer's
\* next read, on either path, fails NotFound.
C9_Witness ==
    /\ last.op = "get"
    /\ subs[last.sub].status = "expired"
    /\ \E out \in GetOutcomes : out.who = last.who /\ NotFound(out.resp)

\* C10: a successful AssignSubscription creates exactly one subscription, with
\* status active, whose expires_at is its assigned_at plus validity_months*30
\* days exactly, each utcnow() being a separate reading of the clock.
C10_AssignExpiry ==
    [][(last'.op = "assign" /\ subs' # subs)
           => /\ Len(subs') = Len(subs) + 1
              /\ SubSeq(subs', 1, Len(subs)) = subs
              /\ subs'[Len(subs')].status = "active"
              /\ subs'[Len(subs')].expires_at =
                     subs'[Len(subs')].assigned_at
                         + timedelta(packs[subs'[Len(subs')].pack_id].validity_months)]_vars

\* C2: lifecycle operations are serialized per customer: when the check and
\* the write of request, assign and approve run as separate steps of
\* concurrent requests, then once the requests of a batch have returned, every
\* customer's subscriptions are those some serial execution of these requests
\* leaves (two concurrent requests of one customer never both create a
\* subscription; a concurrent approve and assign never both succeed).
C2_Serializable ==
    (/\ Len(batch) <= 2
     /\ \A p \in ProcIds : procs[p].pc # "checked")
        => \E S \in SerialResults(base, batch) :
               \A c \in DOMAIN customers : RowsOf(subs, c) = RowsOf(S, c)

\* C11: a successful ApproveSubscription changes only the approved
\* subscription: it sets status approved, approved_at to the time of the call
\* and expires_at to approved_at plus validity_months*30 days exactly, and
\* modifies no other subscription.
C11_ApproveExact ==
    [][(last'.op = "approve" /\ subs' # subs)
           => LET s == last'.sub
              IN  /\ subs'[s].status = "approved"
                  /\ subs'[s].approved_at \in {now, now'}
                  /\ subs'[s].expires_at =
                         subs'[s].approved_at
                             + timedelta(packs[subs[s].pack_id].validity_months)
                  /\ subs' = [subs EXCEPT ![s].status = subs'[s].status,
                                          ![s].approved_at = subs'[s].approved_at,
                                          ![s].expires_at = subs'[s].expires_at]]_vars

DeactivateOutcomes ==
    UNION {deactivate_customer_outcomes(tok) : tok \in BearerInputs}
        \cup UNION {deactivate_sdk_outcomes(key) : key \in KeyInputs}

\* C12: DeactivateSubscription (customer or SDK path) of a customer who has a
\* subscription in {active, approved} sets that subscription to inactive with
\* deactivated_at the time of the call, and nothing else; of a customer who
\* has none (no subscription, or only requested, inactive or expired ones) it
\* fails NotFound and changes nothing.
C12_Deactivate ==
    \A out \in DeactivateOutcomes :
        out.who # 0 =>
            LET found == SubsOf(subs, out.who, ActiveStatuses)
            IN  IF found = {}
                THEN NotFound(out.resp) /\ out.subs = subs
                ELSE /\ out.sub \in found
                     /\ Succeeded(out.resp)
                     /\ out.subs = [subs EXCEPT ![out.sub].status = "inactive",
                                                ![out.sub].deactivated_at = now]

\* C12 witness: a deactivation over the SDK path has just made a subscription
\* inactive, and the deactivation of a customer who holds only a requested
\* subscription is refused with NotFound.
C12_Witness ==
    /\ last.op = "deactivate" /\ last.path = "sdk"
    /\ subs[last.sub].status = "inactive"
    /\ subs[last.sub].deactivated_at = now
    /\ \E out \in DeactivateOutcomes :
           /\ out.who # 0
           /\ SubsOf(subs, out.who, {"requested"}) # {}
           /\ NotFound(out.resp)

\* What C13 says of one outcome of a request for SKU sku by a customer with
\* no subscription in {requested, approved, active}.
RequestCreates(out, sku) ==
    LET found == {p \in DOMAIN packs : packs[p].sku = sku /\ packs[p].is_active}
    IN  IF found = {}
        THEN NotFound(out.resp) /\ out.subs = subs
        ELSE /\ Succeeded(out.resp)
             /\ Len(out.subs) = Len(subs) + 1
             /\ SubSeq(out.subs, 1, Len(subs)) = subs
             /\ out.sub = Len(out.subs)
             /\ out.subs[out.sub].customer_id = out.who
             /\ out.subs[out.sub].pack_id \in found
             /\ out.subs[out.sub].status = "requested"
             /\ out.subs[out.sub].requested_at = now
             /\ out.subs[out.sub].approved_at = NULL
             /\ out.subs[out.sub].assigned_at = NULL
             /\ out.subs[out.sub].expires_at = NULL
             /\ out.subs[out.sub].deactivated_at = NULL

\* C13: RequestSubscription (customer or SDK path) by a customer with no
\* subscription in {requested, approved, active} fails NotFound and creates
\* nothing when no active pack has the SKU; otherwise it creates exactly one
\* subscription, of the caller, for that pack, with status requested,
\* requested_at the time of the call and the other timestamps unset.
C13_RequestCreates ==
    \A sku \in SkuInputs :
        \A out \in UNION {request_customer_outcomes(tok, sku) : tok \in BearerInputs}
                       \cup UNION {request_sdk_outcomes(key, sku) : key \in KeyInputs} :
            (out.who # 0 /\ SubsOf(subs, out.who, LiveStatuses) = {})
                => RequestCreates(out, sku)

\* C14: once a customer's request has been approved, every read by that
\* customer while now <= expires_at returns that subscription with is_valid
\* true and changes nothing; a read with now > expires_at returns it with
\* status expired and is_valid false.
C14_ReadApproved ==
    \A s \in DOMAIN subs :
        subs[s].status = "approved" =>
            \A out \in GetOutcomes :
                out.who = subs[s].customer_id =>
                    /\ out.sub = s
                    /\ Succeeded(out.resp)
                    /\ out.resp.body[1].id = s
                    /\ IF now <= subs[s].expires_at
                       THEN /\ out.resp.body[1].is_valid = TRUE
                            /\ out.resp.body[1].status = "approved"
                            /\ out.subs = subs
                       ELSE /\ out.resp.body[1].is_valid = FALSE
                            /\ out.resp.body[1].status = "expired"

\* C14 witness: a read has just returned a requested and approved
\* subscription, one day past its expires_at, as expired and not valid.
C14_Witness ==
    /\ last.op = "get"
    /\ subs[last.sub].approved_at # NULL
    /\ subs[last.sub].status = "expired"
    /\ subs[last.sub].expires_at = now - 1
    /\ last.resp.body[1].status = "expired"
    /\ last.resp.body[1].is_valid = FALSE

LoginOutcomes ==
    {sdk_login_outcome(email, password) : email \in EmailInputs, password \in Passwords}

ActiveKeys(c) == {k \in DOMAIN apiKeys : apiKeys[k].customer_id = c /\ apiKeys[k].is_active}

\* C15: each customer has at most one active ApiKey, and a successful SDK
\* login of a customer who has one returns that key and creates no ApiKey.
C15_LoginReusesKey ==
    /\ \A c \in DOMAIN customers : Cardinality(ActiveKeys(c)) <= 1
    /\ \A out \in LoginOutcomes :
           (out.who # 0 /\ ActiveKeys(out.who) # {})
               => /\ Succeeded(out.resp)
                  /\ out.apiKeys = apiKeys
                  /\ \A k \in ActiveKeys(out.who) :
                         out.resp.body[1].api_key = apiKeys[k].key

\* C15 witness: a login has just minted a customer's first key, and the same
\* customer's next login returns that key.
C15_Witness ==
    /\ last.op = "login"
    /\ ActiveKeys(last.who) # {}
    /\ \E out \in LoginOutcomes :
           /\ out.who = last.who
           /\ out.resp = last.resp
           /\ out.apiKeys = apiKeys

\* C13 witness: a request has just created a requested subscription, and a
\* request for the SKU of a deleted pack, by a customer with no subscription,
\* is refused with NotFound.
C13_Witness ==
    /\ last.op = "request"
    /\ subs[last.sub].status = "requested"
    /\ subs[last.sub].requested_at = now
    /\ \E p \in DOMAIN packs, tok \in BearerInputs :
           /\ ~packs[p].is_active
           /\ \E out \in request_customer_outcomes(tok, packs[p].sku) :
                  /\ out.who # 0
                  /\ SubsOf(subs, out.who, LiveStatuses) = {}
                  /\ NotFound(out.resp)

\* The lifecycle and history outcomes of the customer-facing handlers, on
\* the bearer path and on the API-key path.
BearerOutcomes(tok) ==
    UNION {request_customer_outcomes(tok, sku) : sku \in SkuInputs}
        \cup get_customer_outcomes(tok)
        \cup deactivate_customer_outcomes(tok)
        \cup UNION {history_customer_outcomes(tok, page, limit) :
                        page \in Pages, limit \in Limits}

KeyOutcomes(key) ==
    UNION {request_sdk_outcomes(key, sku) : sku \in SkuInputs \cup {""}}
        \cup get_sdk_outcomes(key)
        \cup deactivate_sdk_outcomes(key)
        \cup UNION {history_sdk_outcomes(key, page, limit, sort) :
                        page \in Pages, limit \in Limits, sort \in Sorts}

Deleted(c) == c \in DOMAIN customers /\ ~customers[c].is_active

\* C16: once DeleteCustomer(c) has succeeded, the admin's get, update, delete
\* and AssignSubscription of c fail NotFound, c is in no customer listing,
\* and no lifecycle operation runs as c, on the bearer path or the API-key
\* path.
C16_DeletedCustomerExcluded ==
    \A c \in DOMAIN customers :
        Deleted(c) =>
            /\ \A tok \in AdminTokens :
                   /\ NotFound(get_customer_outcome(tok, c).resp)
                   /\ \A customer_data \in CustomerUpdates :
                          NotFound(update_customer_outcome(tok, c, customer_data).resp)
                   /\ NotFound(delete_customer_outcome(tok, c).resp)
                   /\ \A p \in PackIds : \A out \in assign_outcomes(tok, c, p) :
                          NotFound(out.resp) /\ out.subs = subs
                   /\ \A page \in Pages :
                          LET body == list_customers_outcome(tok, page, 10).resp.body
                          IN  \A k \in DOMAIN body : body[k].id # c
            /\ \A tok \in BearerInputs : \A out \in BearerOutcomes(tok) : out.who # c
            /\ \A key \in KeyInputs : \A out \in KeyOutcomes(key) : out.who # c

\* C17: once DeletePack(p) has succeeded, RequestSubscription by p's SKU (by
\* a customer with no live subscription), AssignSubscription of p and the
\* admin's get, update and delete of p fail NotFound, and p is in neither the
\* admin's nor the customers' pack listing.
C17_DeletedPackExcluded ==
    \A p \in DOMAIN packs :
        ~packs[p].is_active =>
            /\ \A out \in UNION {request_customer_outcomes(tok, packs[p].sku) :
                                     tok \in BearerInputs}
                              \cup UNION {request_sdk_outcomes(key, packs[p].sku) :
                                              key \in KeyInputs} :
                   (out.who # 0 /\ SubsOf(subs, out.who, LiveStatuses) = {})
                       => (NotFound(out.resp) /\ out.subs = subs)
            /\ \A tok \in AdminTokens :
                   /\ \A c \in DOMAIN customers : \A out \in assign_outcomes(tok, c, p) :
                          NotFound(out.resp) /\ out.subs = subs
                   /\ NotFound(get_subscription_pack_outcome(tok, p).resp)
                   /\ \A pack_data \in PackUpdates :
                          NotFound(update_subscription_pack_outcome(tok, p, pack_data).resp)
                   /\ NotFound(delete_subscription_pack_outcome(tok, p).resp)
                   /\ \A page \in Pages :
                          LET body == list_subscription_packs_outcome(tok, page, 10).resp.body
                          IN  \A k \in DOMAIN body : body[k].id # p
            /\ \A tok \in BearerInputs :
                   LET body == get_customer_subscription_packs_outcome(tok).resp.body
                   IN  \A k \in DOMAIN body : body[k].id # p

\* The bearer tokens a caller can present: those issued to the principals, a
\* forged one, an expired one, one signed over claims without a subject and
\* one issued to an email that names no principal.
ExpiredToken == [sub |-> "ann@example.com", role |-> "customer", good |-> FALSE]

NoSubjectToken == [sub |-> NoEmail, role |-> "customer", good |-> TRUE]

StrangerToken == create_access_token("nobody@example.com", "customer")

TokenInputs == BearerInputs \cup {ExpiredToken, NoSubjectToken, StrangerToken}

\* The token is invalid or expired, carries no subject, names no principal
\* or names an inactive one.
Unresolvable(tok) ==
    \/ ~tok.good
    \/ tok.sub = NoEmail
    \/ \A u \in DOMAIN users : users[u].email = tok.sub => ~users[u].is_active

\* C18: bearer resolution fails Unauthorized when the token is invalid or
\* expired, carries no subject, names an email with no principal or names an
\* inactive principal, and always with the same status and message, which
\* is what the handlers behind the gates return.
C18_SameUnauthorized ==
    \A tok \in TokenInputs :
        Unresolvable(tok) =>
            /\ get_current_user(tok).user = 0
            /\ Unauthorized(get_current_user(tok).err)
            /\ get_current_user(tok).err = get_current_user(BadToken).err
            /\ get_admin_user(tok) = get_current_user(tok)
            /\ get_customer_user(tok) = get_current_user(tok)
            /\ get_dashboard_outcome(tok).resp = get_current_user(BadToken).err
            /\ \A out \in BearerOutcomes(tok) :
                   out.resp = get_current_user(BadToken).err /\ out.subs = subs

\* C18 witness: an expired token, a token without subject, a token of an
\* unknown email and the token of a disabled principal are all refused, and
\* the token of a customer who has just signed up resolves to that customer.
C18_Witness ==
    /\ \E u \in DOMAIN users :
           /\ ~users[u].is_active
           /\ Unauthorized(get_current_user(
                  create_access_token(users[u].email, users[u].role)).err)
    /\ \A tok \in {ExpiredToken, NoSubjectToken, StrangerToken} :
           Unauthorized(get_current_user(tok).err)
    /\ Len(users) = MaxUsers
    /\ get_current_user(create_access_token(users[MaxUsers].email, "customer")).user
           = MaxUsers

\* The outcomes of the admin-only handlers for a caller presenting tok:
\* those of customer and pack management and the dashboard, and those of
\* assignment, approval and the subscription listing.
ManagementOutcomes(tok) ==
    {get_dashboard_outcome(tok)}
        \cup {list_customers_outcome(tok, page, 10) : page \in Pages}
        \cup {create_customer_outcome(tok, customer_data) : customer_data \in NewCustomers}
        \cup {get_customer_outcome(tok, c) : c \in CustomerIds}
        \cup {update_customer_outcome(tok, c, customer_data) :
                  c \in CustomerIds, customer_data \in CustomerUpdates}
        \cup {delete_customer_outcome(tok, c) : c \in CustomerIds}
        \cup {list_subscription_packs_outcome(tok, page, 10) : page \in Pages}
        \cup {create_subscription_pack_outcome(tok, pack_data) : pack_data \in NewPacks}
        \cup {get_subscription_pack_outcome(tok, p) : p \in PackIds}
        \cup {update_subscription_pack_outcome(tok, p, pack_data) :
                  p \in PackIds, pack_data \in PackUpdates}
        \cup {delete_subscription_pack_outcome(tok, p) : p \in PackIds}

AdminLifecycleOutcomes(tok) ==
    UNION {assign_outcomes(tok, c, p) : c \in CustomerIds, p \in PackIds}
        \cup UNION {approve_outcomes(tok, s) : s \in SubscriptionIds}
        \cup UNION {list_subscriptions_outcomes(tok, page, limit, status) :
                        page \in Pages, limit \in Limits, status \in StatusFilters}

\* The token of principal u, as login or signup issues it.
TokenOf(u) == create_access_token(users[u].email, users[u].role)

\* C19: an admin-only operation invoked by a principal who is not an admin
\* fails Forbidden and changes nothing; a customer-gated operation invoked
\* by a principal who is not a customer fails Forbidden; and every principal
\* but the default admin is a customer, as created, so that none of them
\* can approve or assign.
C19_RoleGating ==
    \A u \in DOMAIN users :
        /\ users[u].email # AdminEmail => users[u].role = "customer"
        /\ (users[u].is_active /\ users[u].role # "admin")
               => /\ \A out \in ManagementOutcomes(TokenOf(u)) :
                         Forbidden(out.resp) /\ out = Kept(out.resp)
                  /\ \A out \in AdminLifecycleOutcomes(TokenOf(u)) :
                         Forbidden(out.resp) /\ out.subs = subs /\ out.now = now
        /\ (users[u].is_active /\ users[u].role # "customer")
               => /\ \A out \in BearerOutcomes(TokenOf(u)) :
                         Forbidden(out.resp) /\ out.subs = subs
                  /\ Forbidden(get_customer_subscription_packs_outcome(TokenOf(u)).resp)

\* C19 witness: a customer has signed up and requested a subscription; the
\* admin can approve it, and the approval and an assignment attempted with
\* the customer's own token are refused Forbidden.
C19_Witness ==
    /\ Len(users) = MaxUsers
    /\ users[MaxUsers].password_hash = <<"bcrypt", "secret">>
    /\ \E s \in DOMAIN subs, tok \in AdminTokens :
           /\ subs[s].status = "requested"
           /\ customers[subs[s].customer_id].user_id = MaxUsers
           /\ \A out \in approve_outcomes(tok, s) : Succeeded(out.resp)
           /\ \A out \in approve_outcomes(TokenOf(MaxUsers), s)
                             \cup assign_outcomes(TokenOf(MaxUsers), 1, 1) :
                  Forbidden(out.resp)

\* The rows of api_keys that an X-API-Key value matches exactly and whose
\* active flag is set.
MatchingKeys(key) ==
    {k \in DOMAIN apiKeys : apiKeys[k].key = key /\ apiKeys[k].is_active}

\* C20: an SDK operation fails Unauthorized and changes nothing when no key
\* is supplied, when no active ApiKey row matches the key, or when the key's
\* customer is soft-deleted; otherwise it runs as the customer of that key,
\* and touches only that customer's subscriptions.
C20_SdkGate ==
    \A key \in KeyInputs : \A out \in KeyOutcomes(key) :
        IF \/ key = 0
           \/ MatchingKeys(key) = {}
           \/ \E k \in MatchingKeys(key) : Deleted(apiKeys[k].customer_id)
        THEN Unauthorized(out.resp) /\ out.subs = subs /\ out.who = 0
        ELSE /\ \A k \in MatchingKeys(key) : out.who = apiKeys[k].customer_id
             /\ ~Unauthorized(out.resp)
             /\ \A i \in DOMAIN out.subs :
                    (i \notin DOMAIN subs \/ out.subs[i] # subs[i])
                        => out.subs[i].customer_id = out.who

\* C20 witness: the requests with no key, with a revoked key, with a key never
\* issued and with the live key of a deleted customer are refused, and a
\* request with another customer's live key creates that customer's
\* subscription.
C20_Witness ==
    /\ \A key \in {0, 1, Len(apiKeys) + 1} : \A out \in get_sdk_outcomes(key) :
           Unauthorized(out.resp)
    /\ Deleted(1)
    /\ \A out \in get_sdk_outcomes(2) : Unauthorized(out.resp)
    /\ last.op = "request" /\ last.path = "sdk"
    /\ last.who # 1
    /\ subs[last.sub].customer_id = last.who
    /\ \E k \in MatchingKeys(3) : apiKeys[k].customer_id = last.who

\* The customer profiles linked to principal u.
ProfilesOf(u) == {c \in DOMAIN customers : customers[c].user_id = u}

\* C21: in every state another request can observe, every principal with
\* role customer has exactly one linked customer profile, and no principal
\* owns more than one.
C21_AllOrNothing ==
    \A u \in DOMAIN users :
        /\ users[u].role = "customer" => Cardinality(ProfilesOf(u)) = 1
        /\ Cardinality(ProfilesOf(u)) <= 1

\* The refusal of an email that is already registered.
EmailConflict(r) == r.status = 400 /\ r.detail = "Email already registered"

\* The emails a request can carry: those registered and those of NewEmails.
EmailsTried == EmailInputs \cup NewEmails \cup {customers[c].email : c \in DOMAIN customers}

EmailHeld(email) ==
    \/ \E u \in DOMAIN users : users[u].email = email
    \/ \E c \in DOMAIN customers : customers[c].email = email

\* Held by a principal other than c's own, or by a profile other than c.
EmailHeldByOther(email, c) ==
    \/ \E u \in DOMAIN users : users[u].email = email /\ u # customers[c].user_id
    \/ \E d \in DOMAIN customers : customers[d].email = email /\ d # c

\* Updates that set the email, alone or with a new name.
EmailUpdates ==
    {[NoCustomerUpdate EXCEPT !.given = given, !.email = email, !.name = "Ann B. Lee"]
         : given \in {{"email"}, {"email", "name"}}, email \in EmailsTried}

\* C22: no two principals share an email and no two customer profiles share
\* an email; signup, CreateCustomer and UpdateCustomer with an email held by
\* another principal or profile fail Conflict and change nothing.
C22_EmailUnique ==
    /\ \A u, v \in DOMAIN users : users[u].email = users[v].email => u = v
    /\ \A c, d \in DOMAIN customers : customers[c].email = customers[d].email => c = d
    /\ \A email \in EmailsTried :
           EmailHeld(email) =>
               /\ LET out == customer_signup_outcome(
                                 [name |-> "Cat Doe", email |-> email,
                                  password |-> "secret", phone |-> "5550100003"])
                  IN  EmailConflict(out.resp) /\ out = Kept(out.resp)
               /\ \A tok \in AdminTokens :
                      LET out == create_customer_outcome(tok,
                                     [name |-> "Cat Doe", email |-> email,
                                      phone |-> "5550100003"])
                      IN  EmailConflict(out.resp) /\ out = Kept(out.resp)
    /\ \A tok \in AdminTokens, c \in DOMAIN customers, customer_data \in EmailUpdates :
           (customers[c].is_active /\ EmailHeldByOther(customer_data.email, c))
               => LET out == update_customer_outcome(tok, c, customer_data)
                  IN  EmailConflict(out.resp) /\ out = Kept(out.resp)

\* C22 witness: the admin has moved the first customer to a new email, on
\* the profile and on the principal; a signup with that email is refused, and
\* so is the move of that customer to the email of the second.
C22_Witness ==
    /\ customers[1].email = "cat@example.com"
    /\ users[customers[1].user_id].email = "cat@example.com"
    /\ EmailConflict(customer_signup_outcome(
                         [name |-> "Cat Doe", email |-> "cat@example.com",
                          password |-> "secret", phone |-> "5550100003"]).resp)
    /\ \E tok \in AdminTokens :
           EmailConflict(update_customer_outcome(tok, 1,
                             [NoCustomerUpdate EXCEPT !.given = {"email"},
                                                      !.email = customers[2].email]).resp)

\* The refusal of a SKU that a pack already has.
SkuConflict(r) == r.status = 400 /\ r.detail = "SKU already exists"

\* The SKUs a request can carry: those of the catalogue and those of NewSkus.
SkusTried == SkuInputs \cup NewSkus

\* Updates that set the SKU, alone or with a new price.
SkuUpdates ==
    {[NoPackUpdate EXCEPT !.given = given, !.sku = sku, !.price = 12]
         : given \in {{"sku"}, {"sku", "price"}}, sku \in SkusTried}

\* C23: no two packs share a SKU; CreatePack with a SKU held by any pack,
\* soft-deleted ones included, and UpdatePack changing a pack's SKU to one
\* held by another pack, fail Conflict and change nothing.
C23_SkuUnique ==
    /\ \A p, q \in DOMAIN packs : packs[p].sku = packs[q].sku => p = q
    /\ \A tok \in AdminTokens :
           /\ \A sku \in SkusTried :
                  (\E p \in DOMAIN packs : packs[p].sku = sku)
                      => LET out == create_subscription_pack_outcome(tok,
                                        [name |-> "Premium", description |-> "Two months",
                                         sku |-> sku, price |-> 18, validity_months |-> 2])
                         IN  SkuConflict(out.resp) /\ out = Kept(out.resp)
           /\ \A p \in DOMAIN packs, pack_data \in SkuUpdates :
                  (packs[p].is_active
                       /\ \E q \in DOMAIN packs : q # p /\ packs[q].sku = pack_data.sku)
                      => LET out == update_subscription_pack_outcome(tok, p, pack_data)
                         IN  SkuConflict(out.resp) /\ out = Kept(out.resp)

\* C23 witness: the first pack has been given a new SKU and a second pack
\* has since been created with the SKU the first one had, then soft-deleted;
\* creating a pack with either SKU is refused, and so is changing the first
\* pack's SKU back.
C23_Witness ==
    /\ Len(packs) = 2
    /\ packs[1].sku = "premium-2m" /\ packs[1].is_active
    /\ packs[2].sku = "basic-plan" /\ ~packs[2].is_active
    /\ \E tok \in AdminTokens :
           /\ \A sku \in NewSkus :
                  SkuConflict(create_subscription_pack_outcome(tok,
                                  [name |-> "Premium", description |-> "Two months",
                                   sku |-> sku, price |-> 18,
                                   validity_months |-> 2]).resp)
           /\ SkuConflict(update_subscription_pack_outcome(tok, 1,
                              [NoPackUpdate EXCEPT !.given = {"sku"},
                                                   !.sku = "basic-plan"]).resp)

\* The subscriptions of status active or approved that reference pack p.
HoldingPack(p) ==
    {s \in DOMAIN subs : subs[s].pack_id = p /\ subs[s].status \in ActiveStatuses}

\* C24: DeletePack of a pack that a subscription of status active or
\* approved references fails and changes nothing, so that the pack keeps its
\* active flag; DeletePack of any other pack on offer clears the pack's
\* active flag and changes nothing else, no subscription in particular.
C24_DeletePack ==
    \A tok \in AdminTokens, p \in DOMAIN packs :
        LET out == delete_subscription_pack_outcome(tok, p)
        IN  /\ HoldingPack(p) # {}
                => /\ ~Succeeded(out.resp)
                   /\ out = Kept(out.resp)
                   /\ packs[p].is_active
                          => /\ out.resp.status = 400
                             /\ out.resp.detail
                                    = "Cannot delete pack with active subscriptions"
            /\ (HoldingPack(p) = {} /\ packs[p].is_active)
                => /\ Succeeded(out.resp)
                   /\ out.packs = [packs EXCEPT ![p].is_active = FALSE]
                   /\ out.subs = subs
                   /\ out.users = users
                   /\ out.customers = customers

\* C24 witness: one pack has been soft-deleted; the other is referenced by
\* an approved subscription and its deletion is refused.
C24_Witness ==
    \E p, q \in DOMAIN packs, tok \in AdminTokens :
        /\ ~packs[q].is_active
        /\ packs[p].is_active
        /\ \E s \in HoldingPack(p) : subs[s].status = "approved"
        /\ delete_subscription_pack_outcome(tok, p).resp.status = 400

\* Table subscriptions and the clock after one more lifecycle operation, by
\* any caller on any input, or after time has passed.  (The operations on
\* customers and packs write no subscription.)
OneOperation(st) ==
    {[subs |-> request_body(st.subs, c, sku, st.now).subs, now |-> st.now]
         : c \in DOMAIN customers, sku \in SkuInputs}
        \cup {[subs |-> assign_body(st.subs, c, p, st.now, st.now + d).subs,
               now |-> st.now + d] : c \in CustomerIds, p \in PackIds, d \in 0..MaxSkew}
        \cup {[subs |-> approve_body(st.subs, s, st.now, st.now + d).subs,
               now |-> st.now + d] : s \in DOMAIN st.subs, d \in 0..MaxSkew}
        \cup {[subs |-> b.subs, now |-> st.now]
                  : b \in UNION {get_subscription_body(st.subs, c, st.now)
                                     \cup deactivate_body(st.subs, c, st.now)
                                     : c \in DOMAIN customers}}
        \cup {[subs |-> st.subs, now |-> st.now + d] : d \in TickSteps}

\* What at most k operations in a row can make of the states in sts.
RECURSIVE Within(_, _)
Within(sts, k) ==
    IF k = 0 THEN sts
    ELSE Within(sts \cup UNION {OneOperation(st) : st \in sts}, k - 1)

\* C25: a subscription created by RequestSubscription that has been approved
\* (no other subscription ever has status approved) can be brought to
\* status active: some sequence of operations (of MaxOps at most) from the
\* current state leaves that subscription active.
C25_ApprovedBecomesActive ==
    \A s \in DOMAIN subs :
        subs[s].status = "approved"
            => \E st \in Within({[subs |-> subs, now |-> now]}, MaxOps) :
                   st.subs[s].status = "active"

\* The ids of customer c's subscriptions, oldest first.
Mine(c) == SelectSeq(Ids(subs), LAMBDA i : subs[i].customer_id = c)

\* Page page of size limit of the ids in order (positions counted from 0:
\* (page-1)*limit .. page*limit-1), as the history serialises it.
PageOf(order, page, limit) ==
    LET first == (page - 1) * limit
        count == IF Len(order) - first > limit THEN limit
                 ELSE IF Len(order) > first THEN Len(order) - first ELSE 0
    IN  [k \in 1..count |-> Row(subs, order[first + k])]

\* The credentials of customer c: its principal's token, its live API keys.
TokensOf(c) == {TokenOf(customers[c].user_id)}

KeysOf(c) == {apiKeys[k].key : k \in {j \in DOMAIN apiKeys : apiKeys[j].customer_id = c
                                                            /\ apiKeys[j].is_active}}

HistoryPages == 1..3

HistoryLimits == 1..2

\* C26: ListHistory for a customer returns that customer's subscriptions and
\* no others, ended ones included, newest first on the customer path and by
\* the sort parameter on the SDK path; page p of size l holds positions
\* (p-1)*l .. p*l-1 of that order, total is the number of the customer's
\* subscriptions, and the table is left as it was.
C26_History ==
    \A c \in DOMAIN customers, page \in HistoryPages, limit \in HistoryLimits :
        /\ \A tok \in TokensOf(c) : \A out \in history_customer_outcomes(tok, page, limit) :
               /\ Succeeded(out.resp)
               /\ out.resp.body = PageOf(Reverse(Mine(c)), page, limit)
               /\ out.resp.total = Len(Mine(c))
               /\ out.subs = subs
        /\ \A key \in KeysOf(c), sort \in Sorts :
               \A out \in history_sdk_outcomes(key, page, limit, sort) :
                   /\ Succeeded(out.resp)
                   /\ out.resp.body
                          = PageOf(IF sort = "asc" THEN Mine(c) ELSE Reverse(Mine(c)),
                                   page, limit)
                   /\ out.resp.total = Len(Mine(c))
                   /\ out.subs = subs

\* C26 witness: a customer with an API key has two subscriptions, the older
\* one ended (inactive or expired) and the newer one not; the second page of
\* size one of the history holds the older on the customer path, and the
\* newer on the SDK path sorted oldest first.
C26_Witness ==
    \E c \in DOMAIN customers : \E key \in KeysOf(c), tok \in TokensOf(c) :
        /\ Mine(c) = <<1, 2>>
        /\ subs[1].status \in {"inactive", "expired"}
        /\ subs[2].status \in LiveStatuses
        /\ \E out \in history_customer_outcomes(tok, 2, 1) :
               out.resp.body = <<Row(subs, 1)>> /\ out.resp.total = 2
        /\ \E out \in history_sdk_outcomes(key, 2, 1, "asc") :
               out.resp.body = <<Row(subs, 2)>>

\* The subscriptions the dashboard counts as active, and their revenue: the
\* sum, over them, of the price of the pack each references.
Counted == {s \in DOMAIN subs : subs[s].status \in ActiveStatuses}

RECURSIVE Revenue(_)
Revenue(ss) ==
    IF ss = {} THEN 0
    ELSE LET s == CHOOSE x \in ss : TRUE
         IN  packs[subs[s].pack_id].price + Revenue(ss \ {s})

\* C27: the dashboard shows the state it is queried in: total_customers is
\* the number of customers with the active flag set, active_subscriptions
\* the number of subscriptions of status active or approved,
\* pending_requests the number of status requested, total_revenue the sum
\* of the pack prices of the subscriptions counted as active; the query
\* changes nothing.
C27_Dashboard ==
    \A tok \in AdminTokens :
        LET out == get_dashboard_outcome(tok)
            data == out.resp.body[1]
        IN  /\ Succeeded(out.resp)
            /\ data.total_customers
                   = Cardinality({c \in DOMAIN customers : customers[c].is_active})
            /\ data.active_subscriptions = Cardinality(Counted)
            /\ data.pending_requests
                   = Cardinality({s \in DOMAIN subs : subs[s].status = "requested"})
            /\ data.total_revenue = Revenue(Counted)
            /\ out = Kept(out.resp)

\* C27 witness: one customer has been soft-deleted, the first pack has a new
\* price, and an active and an approved subscription reference packs of
\* different prices; the dashboard shows one customer, two active
\* subscriptions, no pending request and the sum of the two prices.
C27_Witness ==
    /\ Cardinality({c \in DOMAIN customers : customers[c].is_active}) = 1
    /\ packs[1].price = 12
    /\ \E s, r \in DOMAIN subs :
           /\ subs[s].status = "active" /\ subs[r].status = "approved"
           /\ subs[s].pack_id # subs[r].pack_id
    /\ \E tok \in AdminTokens :
           get_dashboard_outcome(tok).resp.body[1].total_revenue = 12 + packs[2].price

\* The row that a pack created from pack_data must be.
StoredPack(pack_data) ==
    [name |-> pack_data.name, description |-> pack_data.description,
     sku |-> pack_data.sku, price |-> pack_data.price,
     validity_months |-> pack_data.validity_months, is_active |-> TRUE]

\* Every fetch of pack p returns the field values stored for it: the admin's
\* get by id, the admin's and the customers' listing, and a request by its
\* SKU from a customer who may request.
FetchesReturnStored(p) ==
    /\ \A tok \in AdminTokens :
           /\ get_subscription_pack_outcome(tok, p).resp.body = <<PackOut(p, packs[p])>>
           /\ \E k \in DOMAIN list_subscription_packs_outcome(tok, 1, 10).resp.body :
                  list_subscription_packs_outcome(tok, 1, 10).resp.body[k]
                      = PackOut(p, packs[p])
    /\ \A tok \in BearerInputs :
           LET out == get_customer_subscription_packs_outcome(tok)
           IN  Succeeded(out.resp)
                   => \E k \in DOMAIN out.resp.body : out.resp.body[k] = PackOut(p, packs[p])
    /\ \A tok \in BearerInputs : \A out \in request_customer_outcomes(tok, packs[p].sku) :
           Succeeded(out.resp)
               => /\ out.subs[out.sub].pack_id = p
                  /\ out.resp.body[1].pack_name = packs[p].name
                  /\ out.resp.body[1].pack_sku = packs[p].sku
                  /\ out.resp.body[1].price = packs[p].price

\* C28: a pack created with given name, description, SKU, price and
\* validity_months is stored and returned with exactly these values; no step
\* other than an UpdatePack or a DeletePack of a pack changes its stored
\* values; and in every state each fetch of a pack on offer (by id, in a
\* listing, by SKU through RequestSubscription) returns its stored values.
C28_PackRoundTrip ==
    /\ [](\A p \in DOMAIN packs : packs[p].is_active => FetchesReturnStored(p))
    /\ [][/\ Len(packs') > Len(packs)
                 => \E tok \in AdminTokens, pack_data \in NewPacks :
                        LET out == create_subscription_pack_outcome(tok, pack_data)
                        IN  /\ Succeeded(out.resp)
                            /\ packs' = Append(packs, StoredPack(pack_data))
                            /\ out.resp.body = <<PackOut(Len(packs'), pack_data)>>
          /\ \A p \in DOMAIN packs :
                 packs'[p] # packs[p]
                     => \E tok \in AdminTokens :
                            \/ packs' = delete_subscription_pack_outcome(tok, p).packs
                            \/ \E pack_data \in PackUpdates :
                                   packs' = update_subscription_pack_outcome(tok, p,
                                                                             pack_data).packs
         ]_vars

\* C28 witness: a second pack has been created and the first one has since
\* been updated; the second is fetched by id with the values it was created
\* with, and a customer's request by its SKU is answered with them.
C28_Witness ==
    /\ Len(packs) = 2
    /\ packs[1].price = 12
    /\ \E pack_data \in NewPacks, tok \in AdminTokens :
           /\ packs[2] = StoredPack(pack_data)
           /\ get_subscription_pack_outcome(tok, 2).resp.body = <<PackOut(2, pack_data)>>
           /\ \E ctok \in BearerInputs : \E out \in request_customer_outcomes(ctok, pack_data.sku) :
                  /\ Succeeded(out.resp)
                  /\ out.resp.body[1].price = pack_data.price
                  /\ out.resp.body[1].pack_name = pack_data.name

\* The value an update leaves in field of a row: the request's when the
\* request sets the field, the row's own otherwise.
Updated(row, data, field) == IF field \in data.given THEN data[field] ELSE row[field]

\* C29: an UpdatePack or UpdateCustomer that succeeds sets exactly the fields
\* its request gives, to the values given, and leaves alone every other
\* field, every other pack and customer and every subscription (the
\* expires_at of those that reference the pack included); a customer's new
\* email is also that of its principal.
C29_PartialUpdate ==
    \A tok \in AdminTokens :
        /\ \A p \in DOMAIN packs, pack_data \in PackUpdates :
               LET out == update_subscription_pack_outcome(tok, p, pack_data)
               IN  Succeeded(out.resp)
                       => /\ \A field \in {"name", "description", "sku", "price",
                                          "validity_months"} :
                                 out.packs[p][field] = Updated(packs[p], pack_data, field)
                          /\ out.packs[p].is_active = packs[p].is_active
                          /\ \A q \in DOMAIN packs : q # p => out.packs[q] = packs[q]
                          /\ DOMAIN out.packs = DOMAIN packs
                          /\ out.subs = subs
                          /\ out.customers = customers
                          /\ out.users = users
        /\ \A c \in DOMAIN customers, customer_data \in CustomerUpdates :
               LET out == update_customer_outcome(tok, c, customer_data)
                   u == customers[c].user_id
               IN  Succeeded(out.resp)
                       => /\ \A field \in {"name", "email", "phone"} :
                                 out.customers[c][field]
                                     = Updated(customers[c], customer_data, field)
                          /\ out.customers[c].is_active = customers[c].is_active
                          /\ out.customers[c].user_id = u
                          /\ \A d \in DOMAIN customers :
                                 d # c => out.customers[d] = customers[d]
                          /\ DOMAIN out.customers = DOMAIN customers
                          /\ out.users = [users EXCEPT ![u].email = out.customers[c].email]
                          /\ out.packs = packs
                          /\ out.subs = subs

TerminalStatuses == {"inactive", "expired"}

\* C30: a subscription of status inactive or expired is never changed again,
\* in its status or in any timestamp; a subscription becomes inactive only
\* from approved or active, by a deactivation; it becomes expired only from
\* approved or active, by a GetActiveSubscription read made after its
\* expires_at; and no subscription is created inactive or expired.
C30_Terminal ==
    [][/\ \A s \in DOMAIN subs :
              /\ subs[s].status \in TerminalStatuses => subs'[s] = subs[s]
              /\ (subs'[s].status = "inactive" /\ subs[s].status # "inactive")
                     => /\ subs[s].status \in ActiveStatuses
                        /\ last'.op = "deactivate" /\ last'.sub = s
              /\ (subs'[s].status = "expired" /\ subs[s].status # "expired")
                     => /\ subs[s].status \in ActiveStatuses
                        /\ last'.op = "get" /\ last'.sub = s
                        /\ subs[s].expires_at # NULL
                        /\ subs[s].expires_at < now'
       /\ \A s \in DOMAIN subs' \ DOMAIN subs : subs'[s].status \notin TerminalStatuses
       /\ DOMAIN subs \subseteq DOMAIN subs'
      ]_vars

\* C30 witness: one subscription has expired on a read and another has just
\* been deactivated; approving either is refused, and neither is found by a
\* read or a deactivation of its customer.
C30_Witness ==
    /\ last.op = "deactivate"
    /\ subs[last.sub].status = "inactive"
    /\ \E s \in DOMAIN subs : subs[s].status = "expired"
    /\ \A s \in DOMAIN subs, tok \in AdminTokens : \A out \in approve_outcomes(tok, s) :
           PreconditionFailed(out.resp) /\ out.subs = subs
    /\ \A out \in GetOutcomes \cup DeactivateOutcomes : out.subs = subs

\* ---------------------------------------------------------------- C31
\* C31: with every handler run as one step, each customer has at most one
\* subscription with status approved or active in every reachable state,
\* whatever requests, assignments, approvals, deactivations and reads were
\* served.
C31_OneActive ==
    \A c \in DOMAIN customers : Cardinality(SubsOf(subs, c, ActiveStatuses)) <= 1

\* An assignment has just been made to a customer who also holds a requested
\* subscription, and the approval of that one is refused.
C31_Witness ==
    /\ last.op = "assign"
    /\ \E c \in DOMAIN customers :
           /\ subs[last.sub].customer_id = c
           /\ \E s \in SubsOf(subs, c, {"requested"}) :
                  \A tok \in AdminTokens : \A out \in approve_outcomes(tok, s) :
                      Conflict(out.resp) /\ out.subs = subs

\* ---------------------------------------------------------------- C32
\* The outcomes of RequestSubscription for SKU sku by customer c, over the
\* customer's token and live API keys.
RequestsBy(c, sku) ==
    UNION {request_customer_outcomes(tok, sku) : tok \in TokensOf(c)}
        \cup UNION {request_sdk_outcomes(key, sku) : key \in KeysOf(c)}

DeactivationsBy(c) ==
    UNION {deactivate_customer_outcomes(tok) : tok \in TokensOf(c)}
        \cup UNION {deactivate_sdk_outcomes(key) : key \in KeysOf(c)}

\* The outcome appends one subscription of customer c with the given status.
Creates(out, c, status) ==
    /\ Succeeded(out.resp)
    /\ Len(out.subs) = Len(subs) + 1
    /\ SubSeq(out.subs, 1, Len(subs)) = subs
    /\ out.subs[Len(out.subs)].customer_id = c
    /\ out.subs[Len(out.subs)].status = status

\* C32: only GetActiveSubscription evaluates expiry.  While a customer's
\* approved or active subscription is past its expires_at and unread, a
\* request and an assignment for that customer fail Conflict and a
\* deactivation turns that subscription inactive; once a read has marked it
\* expired, a new request and a new assignment for that customer succeed.
C32_OnlyReadExpires ==
    /\ \A c \in DOMAIN customers : \A s \in SubsOf(subs, c, ActiveStatuses) :
           Stale(subs[s]) =>
               /\ \A sku \in SkuInputs : \A out \in RequestsBy(c, sku) :
                      Conflict(out.resp) /\ out.subs = subs
               /\ \A tok \in AdminTokens, p \in DOMAIN packs :
                      \A out \in assign_outcomes(tok, c, p) :
                          Conflict(out.resp) /\ out.subs = subs
               /\ \A out \in DeactivationsBy(c) :
                      out.subs = [subs EXCEPT ![s].status = "inactive",
                                              ![s].deactivated_at = now]
    /\ (last.op = "get" /\ subs[last.sub].status = "expired") =>
           LET c == subs[last.sub].customer_id
           IN  /\ \A p \in {q \in DOMAIN packs : packs[q].is_active} :
                      \A out \in RequestsBy(c, packs[p].sku) :
                      Creates(out, c, "requested")
               /\ \A tok \in AdminTokens, p \in DOMAIN packs :
                      \A out \in assign_outcomes(tok, c, p) :
                          Creates(out, c, "active")

\* ---------------------------------------------------------------- C33
\* The tokens issued to the admin (principal 1) and to ann (principal 2) by
\* their logins in the initial state of SpecManage; a token carries the email
\* of its principal at that time and is good for an hour.
StartTokens ==
    <<create_access_token(AdminEmail, "admin"),
      create_access_token("ann@example.com", "customer")>>

\* C33: a bearer token only ever authenticates the principal it was issued
\* to: whatever signups, customer creations and email changes were served,
\* resolving a token that has not expired fails or yields the principal that
\* logged in to obtain it, never another principal that acquired its email.
C33_TokenBinding ==
    \A u \in DOMAIN StartTokens :
        now = 0 => get_current_user(StartTokens[u]).user \in {0, u}

\* ---------------------------------------------------------------- C34
\* C34: in every reachable state every subscription with status approved or
\* active references a pack whose is_active flag is set: no sequence of
\* requests, pack deletions, approvals and assignments leaves an approved or
\* active subscription on a soft-deleted pack.
C34_ActiveOnOfferedPack ==
    \A s \in DOMAIN subs :
        subs[s].status \in ActiveStatuses => packs[subs[s].pack_id].is_active

\* ---------------------------------------------------------------- C35
\* C35: status and timestamps are consistent in every reachable state: a
\* requested subscription has approved_at, assigned_at, expires_at and
\* deactivated_at unset; an approved one has approved_at and expires_at set
\* and assigned_at unset; an active one has assigned_at and expires_at set and
\* approved_at unset; deactivated_at is set exactly when the status is
\* inactive; an expired one has expires_at set and not later than the clock.
C35_StatusTimestamps ==
    \A s \in DOMAIN subs :
        LET row == subs[s]
        IN  /\ row.status \in Statuses
            /\ row.status = "requested" =>
                   /\ row.approved_at = NULL /\ row.assigned_at = NULL
                   /\ row.expires_at = NULL /\ row.deactivated_at = NULL
            /\ row.status = "approved" =>
                   /\ row.approved_at # NULL /\ row.expires_at # NULL
                   /\ row.assigned_at = NULL
            /\ row.status = "active" =>
                   /\ row.assigned_at # NULL /\ row.expires_at # NULL
                   /\ row.approved_at = NULL
            /\ row.deactivated_at # NULL <=> row.status = "inactive"
            /\ row.status = "expired" =>
                   row.expires_at # NULL /\ row.expires_at <= now

\* A read has just marked an assigned subscription expired, next to a
\* subscription that was approved and then deactivated.
C35_Witness ==
    /\ last.op = "get"
    /\ subs[last.sub].status = "expired" /\ subs[last.sub].assigned_at # NULL
    /\ \E s \in DOMAIN subs :
           /\ subs[s].status = "inactive"
           /\ subs[s].approved_at # NULL
           /\ subs[s].deactivated_at # NULL

\* ---------------------------------------------------------------- C36
ReadsBy(c) ==
    UNION {get_customer_outcomes(tok) : tok \in TokensOf(c)}
        \cup UNION {get_sdk_outcomes(key) : key \in KeysOf(c)}

\* Every outcome of a request, a read or a deactivation issued by customer c.
OperationsBy(c) ==
    UNION {RequestsBy(c, sku) : sku \in SkuInputs}
        \cup ReadsBy(c) \cup DeactivationsBy(c)

\* The outcome touches and returns subscriptions of customer c only.
Isolated(out, c) ==
    /\ out.who \in {0, c}
    /\ DOMAIN subs \subseteq DOMAIN out.subs
    /\ \A s \in DOMAIN subs : subs[s].customer_id # c => out.subs[s] = subs[s]
    /\ \A s \in DOMAIN out.subs \ DOMAIN subs : out.subs[s].customer_id = c
    /\ out.sub # 0 => out.subs[out.sub].customer_id = c
    /\ \A k \in DOMAIN out.resp.body : out.subs[out.resp.body[k].id].customer_id = c

\* C36: a request, a read or a deactivation issued by customer A, with a
\* bearer token or an API key, never creates, modifies or returns a
\* subscription of another customer, and leaves the subscriptions of every
\* other customer, every pack and every API key unchanged.
C36_Isolation ==
    /\ [](\A c \in DOMAIN customers : \A out \in OperationsBy(c) : Isolated(out, c))
    /\ [][(last' # last /\ last'.op \in {"request", "get", "deactivate"}) =>
             /\ packs' = packs
             /\ apiKeys' = apiKeys
             /\ customers' = customers
             /\ subs'[last'.sub].customer_id = last'.who
             /\ \A s \in DOMAIN subs :
                    subs[s].customer_id # last'.who => subs'[s] = subs[s]
        ]_vars

\* A customer has just deactivated a subscription through an API key while
\* another customer holds an approved or active subscription, which a read by
\* that other customer returns.
C36_Witness ==
    /\ last.op = "deactivate" /\ last.path = "sdk"
    /\ subs[last.sub].customer_id = last.who
    /\ \E c \in DOMAIN customers \ {last.who} :
           /\ SubsOf(subs, c, ActiveStatuses) # {}
           /\ \E out \in ReadsBy(c) : Succeeded(out.resp) /\ out.sub # 0

====
